---------------------------- MODULE Spec2Model ----------------------------
(***************************************************************************)
(* Flow-to-Lyrics: the Lyric Validator (src/validator.py) and the rhythmic *)
(* segmentation of src/audio_engine.py (LibrosaAnalyzer, PivotFormatter).  *)
(*                                                                         *)
(* Conventions                                                             *)
(*  - A Python string is a sequence of one-character strings.  IPA letters *)
(*    are written in ASCII (X-SAMPA): "A" is U+0251, "S" is U+0283, ...    *)
(*  - A text is represented by the phoneme list g2p_en returns for it      *)
(*    (g2p_en is an external collaborator): a sequence of tokens, each a   *)
(*    string such as "AA1", "M" or " ".                                    *)
(*  - A score is an exact rational <<n, d>> in lowest terms with d > 0.    *)
(*  - A time is an integer number of ticks of 1/(2*sr) seconds, so that    *)
(*    every threshold of the code (0.05 s, 0.08 s, 0.15 s, ...) and every  *)
(*    frame time (k*hop/sr) is an integer.                                 *)
(***************************************************************************)
EXTENDS Integers, Sequences, FiniteSets, TLC

VARIABLES
    pc,               \* position of the modelled call
    text,             \* validate_line: g2p phonemes of the text
    segments,         \* target_segments / the grid's segments
    rhythm_weight,    \* validate_line argument (rational)
    phonetic_weight,  \* validate_line argument (rational)
    result,           \* ValidationResult returned by validate_line
    candidates,       \* get_best_candidate: batch of texts
    best,             \* value returned by get_best_candidate
    pipeline,         \* outcome of CorePipeline.run_pipeline / run_full_pipeline
    audio_signal,     \* AnalysisResult.audio_signal: the waveform y
    spectral_onsets,  \* what _detect_onsets_spectral returned
    pyin,             \* what librosa.pyin does on y
    use_energy_detection,  \* LibrosaAnalyzer.use_energy_detection
    onset_times,      \* AnalysisResult.onset_times
    energy_detection, \* analyze: whether _detect_onsets_energy ran, and its onsets
    phonetic_analyzer, \* PivotFormatter.phonetic_analyzer, after _lazy_init
    spans,            \* PivotFormatter helpers: the zip of onset_times and durations
    segment_rms,      \* _detect_stress: the RMS of each segment
    formatter,        \* the thresholds of the PivotFormatter whose helper is called
    returned,         \* value returned by the helper or method that was called
    analyzer_state,   \* the fields of a PhoneticAnalyzer object
    backend_loads,    \* what loading Whisper and Allosaurus does on this machine
    load_calls        \* the backend loads attempted so far

validatorVars == <<text, rhythm_weight, phonetic_weight, result, candidates, best, pipeline>>

audioVars == <<audio_signal, spectral_onsets, pyin, use_energy_detection, onset_times,
               energy_detection, phonetic_analyzer>>

helperVars == <<spans, segment_rms, formatter, returned>>

lazyVars == <<analyzer_state, backend_loads, load_calls>>

vars == <<pc, segments, validatorVars, audioVars, helperVars, lazyVars>>

-----------------------------------------------------------------------------
(* Bounds of the model *)

MaxPhonemes == 3
MaxSegments == 2
MaxCandidates == 3
MaxOnsets == 4
TrackFrames == 64

-----------------------------------------------------------------------------
(* Generic helpers *)

SeqsUpTo(S, n) == UNION {[1..k -> S] : k \in 0..n}

Max2(a, b) == IF a >= b THEN a ELSE b

Min2(a, b) == IF a <= b THEN a ELSE b

Abs(x) == IF x < 0 THEN -x ELSE x

RECURSIVE GCD(_, _)
GCD(a, b) == IF b = 0 THEN a ELSE GCD(b, a % b)

(* Exact rationals standing for the code's floats *)
Rat(n, d) ==
    IF n = 0 THEN <<0, 1>>
    ELSE LET g == GCD(Abs(n), d) IN <<n \div g, d \div g>>

Zero == Rat(0, 1)

One == Rat(1, 1)

RAdd(x, y) == Rat(x[1] * y[2] + y[1] * x[2], x[2] * y[2])

RMul(x, y) == Rat(x[1] * y[1], x[2] * y[2])

RLeq(x, y) == x[1] * y[2] <= y[1] * x[2]

RLt(x, y) == x[1] * y[2] < y[1] * x[2]

RMin(x, y) == IF RLeq(x, y) THEN x ELSE y

(* sum(s[lo..hi]), by halving *)
RECURSIVE SumRange(_, _, _)
SumRange(s, lo, hi) ==
    IF lo > hi THEN 0
    ELSE IF lo = hi THEN s[lo]
    ELSE LET mid == (lo + hi) \div 2
         IN  SumRange(s, lo, mid) + SumRange(s, mid + 1, hi)

SumSeq(s) == SumRange(s, 1, Len(s))

(* the indices lo..hi at which flags is TRUE, ascending *)
RECURSIVE TrueIndices(_, _, _)
TrueIndices(flags, lo, hi) ==
    IF lo > hi THEN <<>>
    ELSE IF lo = hi THEN (IF flags[lo] THEN <<lo>> ELSE <<>>)
    ELSE LET mid == (lo + hi) \div 2
         IN  TrueIndices(flags, lo, mid) \o TrueIndices(flags, mid + 1, hi)

-----------------------------------------------------------------------------
(* src/validator.py: phonetic mappings *)

ARPABET_TO_IPA ==
    (<<"A","A">> :> <<"A">>) @@ (<<"A","E">> :> <<"ae">>) @@
    (<<"A","H">> :> <<"V">>) @@ (<<"A","O">> :> <<"O">>) @@
    (<<"A","W">> :> <<"a","U">>) @@ (<<"A","Y">> :> <<"a","I">>) @@
    (<<"E","H">> :> <<"E">>) @@ (<<"E","R">> :> <<"3">>) @@
    (<<"E","Y">> :> <<"e","I">>) @@ (<<"I","H">> :> <<"I">>) @@
    (<<"I","Y">> :> <<"i">>) @@ (<<"O","W">> :> <<"o","U">>) @@
    (<<"O","Y">> :> <<"O","I">>) @@ (<<"U","H">> :> <<"U">>) @@
    (<<"U","W">> :> <<"u">>) @@
    (<<"B">> :> <<"b">>) @@ (<<"C","H">> :> <<"t","S">>) @@
    (<<"D">> :> <<"d">>) @@ (<<"D","H">> :> <<"D">>) @@
    (<<"F">> :> <<"f">>) @@ (<<"G">> :> <<"g">>) @@
    (<<"H","H">> :> <<"h">>) @@ (<<"J","H">> :> <<"d","Z">>) @@
    (<<"K">> :> <<"k">>) @@ (<<"L">> :> <<"l">>) @@
    (<<"M">> :> <<"m">>) @@ (<<"N">> :> <<"n">>) @@
    (<<"N","G">> :> <<"N">>) @@ (<<"P">> :> <<"p">>) @@
    (<<"R">> :> <<"r">>) @@ (<<"S">> :> <<"s">>) @@
    (<<"S","H">> :> <<"S">>) @@ (<<"T">> :> <<"t">>) @@
    (<<"T","H">> :> <<"T">>) @@ (<<"V">> :> <<"v">>) @@
    (<<"W">> :> <<"w">>) @@ (<<"Y">> :> <<"j">>) @@
    (<<"Z">> :> <<"z">>) @@ (<<"Z","H">> :> <<"Z">>)

(* Each class is a set of Python strings; the affricates are two characters *)
PHONETIC_CLASSES ==
    { {<<"A">>, <<"ae">>, <<"V">>, <<"a">>},
      {<<"E">>, <<"3">>, <<"O">>, <<"e">>, <<"o">>},
      {<<"I">>, <<"i">>, <<"U">>, <<"u">>},
      {<<"b">>, <<"p">>, <<"d">>, <<"t">>, <<"g">>, <<"k">>},
      {<<"f">>, <<"v">>, <<"s">>, <<"z">>, <<"S">>, <<"Z">>, <<"T">>, <<"D">>, <<"h">>},
      {<<"m">>, <<"n">>, <<"N">>},
      {<<"l">>, <<"r">>, <<"w">>, <<"j">>},
      {<<"t","S">>, <<"d","Z">>} }

(* str.lower() on the characters g2p tokens are made of *)
LowerChar ==
    ("A" :> "a") @@ ("B" :> "b") @@ ("C" :> "c") @@ ("D" :> "d") @@
    ("E" :> "e") @@ ("F" :> "f") @@ ("G" :> "g") @@ ("H" :> "h") @@
    ("I" :> "i") @@ ("J" :> "j") @@ ("K" :> "k") @@ ("L" :> "l") @@
    ("M" :> "m") @@ ("N" :> "n") @@ ("O" :> "o") @@ ("P" :> "p") @@
    ("Q" :> "q") @@ ("R" :> "r") @@ ("S" :> "s") @@ ("T" :> "t") @@
    ("U" :> "u") @@ ("V" :> "v") @@ ("W" :> "w") @@ ("X" :> "x") @@
    ("Y" :> "y") @@ ("Z" :> "z")

lower(s) == [i \in DOMAIN s |-> IF s[i] \in DOMAIN LowerChar THEN LowerChar[s[i]] ELSE s[i]]

-----------------------------------------------------------------------------
(* src/validator.py: LyricValidator *)

(* re.compile(r'[012]') *)
STRESS_PATTERN == {"0", "1", "2"}

StressValue == ("0" :> 0) @@ ("1" :> 1) @@ ("2" :> 2)

(* STRESS_PATTERN.search(phoneme): index of the first matching character, 0 if none *)
RECURSIVE SearchFrom(_, _)
SearchFrom(phoneme, j) ==
    IF j > Len(phoneme) THEN 0
    ELSE IF phoneme[j] \in STRESS_PATTERN THEN j
    ELSE SearchFrom(phoneme, j + 1)

RECURSIVE extract_stress_markers(_)
extract_stress_markers(phonemes) ==
    IF phonemes = <<>> THEN <<>>
    ELSE LET m == SearchFrom(Head(phonemes), 1)
             rest == extract_stress_markers(Tail(phonemes))
         IN  IF m # 0 THEN <<StressValue[Head(phonemes)[m]]>> \o rest ELSE rest

(* mutant: an orthographic count, one syllable per phoneme token *)
count_syllables_per_token(phonemes) ==
    [syllable_count |-> Len(phonemes),
     phonemes |-> phonemes,
     stress_markers |-> extract_stress_markers(phonemes)]

(* returns (syllable_count, phonemes, stress_markers) *)
count_syllables(phonemes) ==
    LET stress_markers == extract_stress_markers(phonemes)
    IN  [syllable_count |-> Len(stress_markers),
         phonemes |-> phonemes,
         stress_markers |-> stress_markers]

(* mutant: secondary stress rewarded like primary stress *)
PairPoints2_secondary_full(text_s, audio_s) ==
    IF audio_s
    THEN (IF text_s \in {1, 2} THEN 4 ELSE 0)
    ELSE (IF text_s = 0 THEN 2 ELSE 0)

(* lines 239-252: points of one (text_s, audio_s) pair, in half points *)
PairPoints2(text_s, audio_s) ==
    IF audio_s
    THEN (IF text_s = 1 THEN 4 ELSE IF text_s = 2 THEN 1 ELSE 0)
    ELSE (IF text_s = 0 THEN 2 ELSE 0)

(* mutant: an empty profile against an empty grid counted as a perfect match *)
calculate_groove_score_vacuous(text_stress, audio_stress) ==
    IF Len(text_stress) # Len(audio_stress) THEN Zero
    ELSE IF text_stress = <<>> THEN One
    ELSE LET stressed_count == SumSeq([i \in DOMAIN audio_stress |->
                                         IF audio_stress[i] THEN 1 ELSE 0])
             max_points == (stressed_count * 2) + (Len(audio_stress) - stressed_count)
             points2 == SumSeq([i \in DOMAIN text_stress |->
                                  PairPoints2(text_stress[i], audio_stress[i])])
         IN  IF max_points = 0 THEN Zero ELSE Rat(points2, 2 * max_points)

(* mutant: normalised by the number of segments instead of the weighted maximum *)
calculate_groove_score_per_segment(text_stress, audio_stress) ==
    IF Len(text_stress) # Len(audio_stress) THEN Zero
    ELSE IF text_stress = <<>> THEN Zero
    ELSE Rat(SumSeq([i \in DOMAIN text_stress |->
                        PairPoints2(text_stress[i], audio_stress[i])]),
             2 * Len(audio_stress))

calculate_groove_score(text_stress, audio_stress) ==
    IF Len(text_stress) # Len(audio_stress) THEN Zero
    ELSE IF text_stress = <<>> THEN Zero
    ELSE LET stressed_count == SumSeq([i \in DOMAIN audio_stress |->
                                         IF audio_stress[i] THEN 1 ELSE 0])
             unstressed_count == Len(audio_stress) - stressed_count
             max_points == (stressed_count * 2) + unstressed_count
             points2 == SumSeq([i \in DOMAIN text_stress |->
                                  PairPoints2(text_stress[i], audio_stress[i])])
         IN  IF max_points = 0 THEN Zero ELSE Rat(points2, 2 * max_points)

(* phoneme.rstrip('012') *)
RECURSIVE rstrip012(_)
rstrip012(s) ==
    IF s = <<>> THEN s
    ELSE IF s[Len(s)] \in STRESS_PATTERN THEN rstrip012(SubSeq(s, 1, Len(s) - 1))
    ELSE s

(* ' '.join(parts) *)
RECURSIVE JoinSpace(_)
JoinSpace(parts) ==
    IF parts = <<>> THEN <<>>
    ELSE IF Len(parts) = 1 THEN parts[1]
    ELSE parts[1] \o <<" ">> \o JoinSpace(Tail(parts))

RECURSIVE IpaParts(_)
IpaParts(phonemes) ==
    IF phonemes = <<>> THEN <<>>
    ELSE LET base_phoneme == rstrip012(Head(phonemes))
             rest == IpaParts(Tail(phonemes))
         IN  IF base_phoneme = <<>> \/ base_phoneme \in {<<" ">>, <<"'">>, <<",">>, <<".">>}
             THEN rest
             ELSE <<(IF base_phoneme \in DOMAIN ARPABET_TO_IPA
                     THEN ARPABET_TO_IPA[base_phoneme]
                     ELSE lower(base_phoneme))>> \o rest

normalize_arpabet_to_ipa(phonemes) == JoinSpace(IpaParts(phonemes))

(* s.replace(' ', '') *)
RECURSIVE RemoveSpaces(_)
RemoveSpaces(s) ==
    IF s = <<>> THEN <<>>
    ELSE IF Head(s) = " " THEN RemoveSpaces(Tail(s))
    ELSE <<Head(s)>> \o RemoveSpaces(Tail(s))

(* s.strip() is empty *)
StripIsEmpty(s) == RemoveSpaces(s) = <<>>

SameClass(a, b) == \E cls \in PHONETIC_CLASSES : <<a>> \in cls /\ <<b>> \in cls

calculate_phonetic_match(text_phonemes, audio_ipa) ==
    IF audio_ipa = <<>> \/ StripIsEmpty(audio_ipa) THEN Zero
    ELSE LET text_ipa == normalize_arpabet_to_ipa(text_phonemes) IN
         IF text_ipa = <<>> THEN Zero
         ELSE LET text_sounds == RemoveSpaces(text_ipa)
                  audio_sounds == RemoveSpaces(audio_ipa)
              IN  IF audio_sounds = <<>> THEN Zero
                  ELSE LET total == Max2(Len(text_sounds), Len(audio_sounds))
                           matches2 == SumSeq([i \in DOMAIN text_sounds |->
                               IF i <= Len(audio_sounds)
                               THEN (IF text_sounds[i] = audio_sounds[i] THEN 2
                                     ELSE IF SameClass(text_sounds[i], audio_sounds[i]) THEN 1
                                     ELSE 0)
                               ELSE 0])
                       IN  IF total > 0 THEN RMin(One, Rat(matches2, 2 * total)) ELSE Zero

(* mutant: any non-empty combined string counts as phonetic data *)
HasPhoneticData_any(combined_audio_phonemes) == combined_audio_phonemes # <<>>

(* line 390: if combined_audio_phonemes.strip() *)
HasPhoneticData(combined_audio_phonemes) == ~StripIsEmpty(combined_audio_phonemes)

(* filter(None, xs) *)
RECURSIVE FilterNonEmpty(_)
FilterNonEmpty(xs) ==
    IF xs = <<>> THEN <<>>
    ELSE IF Head(xs) = <<>> THEN FilterNonEmpty(Tail(xs))
    ELSE <<Head(xs)>> \o FilterNonEmpty(Tail(xs))

validate_line(txt, target_segments, rw, pw) ==
    LET cs == count_syllables(txt)
        target_count == Len(target_segments)
    IN  IF cs.syllable_count # target_count
        THEN [is_valid |-> FALSE, score |-> Zero,
              groove_score |-> Zero, phonetic_score |-> Zero,
              syllable_count |-> cs.syllable_count,
              stress_markers |-> cs.stress_markers]
        ELSE LET audio_stress == [i \in DOMAIN target_segments |->
                                    target_segments[i].is_stressed]
                 groove_score == calculate_groove_score(cs.stress_markers, audio_stress)
                 audio_phonemes_list == [i \in DOMAIN target_segments |->
                                           target_segments[i].audio_phonemes]
                 combined_audio_phonemes == JoinSpace(FilterNonEmpty(audio_phonemes_list))
             IN  IF HasPhoneticData(combined_audio_phonemes)
                 THEN LET phonetic_score ==
                              calculate_phonetic_match(cs.phonemes, combined_audio_phonemes)
                      IN  [is_valid |-> TRUE,
                           score |-> RAdd(RMul(groove_score, rw), RMul(phonetic_score, pw)),
                           groove_score |-> groove_score,
                           phonetic_score |-> phonetic_score,
                           syllable_count |-> cs.syllable_count,
                           stress_markers |-> cs.stress_markers]
                 ELSE [is_valid |-> TRUE,
                       score |-> groove_score,
                       groove_score |-> groove_score,
                       phonetic_score |-> Zero,
                       syllable_count |-> cs.syllable_count,
                       stress_markers |-> cs.stress_markers]

(* rhythm_weight: float = 0.6, phonetic_weight: float = 0.4 *)
DefaultRhythmWeight == Rat(6, 10)

DefaultPhoneticWeight == Rat(4, 10)

(* min_score: float = 0.0 *)
DefaultMinScore == Rat(0, 10)

validate_candidates(cands, target_segments) ==
    [i \in DOMAIN cands |->
        validate_line(cands[i], target_segments,
                      DefaultRhythmWeight, DefaultPhoneticWeight)]

(* indices i >= from, in order, with results[i].is_valid and score >= min_score *)
RECURSIVE ValidResults(_, _, _)
ValidResults(results, from, min_score) ==
    IF from > Len(results) THEN <<>>
    ELSE IF results[from].is_valid /\ RLeq(min_score, results[from].score)
    THEN <<from>> \o ValidResults(results, from + 1, min_score)
    ELSE ValidResults(results, from + 1, min_score)

(* mutant: an unstable sort, a later candidate overtakes an equal earlier one *)
RECURSIVE InsertByScoreDesc_unstable(_, _, _)
InsertByScoreDesc_unstable(sorted, i, results) ==
    IF sorted = <<>> THEN <<i>>
    ELSE IF RLeq(results[Head(sorted)].score, results[i].score) THEN <<i>> \o sorted
    ELSE <<Head(sorted)>> \o InsertByScoreDesc_unstable(Tail(sorted), i, results)

(* list.sort(key=score, reverse=True): stable, equal keys keep their order *)
RECURSIVE InsertByScoreDesc(_, _, _)
InsertByScoreDesc(sorted, i, results) ==
    IF sorted = <<>> THEN <<i>>
    ELSE IF RLt(results[Head(sorted)].score, results[i].score) THEN <<i>> \o sorted
    ELSE <<Head(sorted)>> \o InsertByScoreDesc(Tail(sorted), i, results)

RECURSIVE SortByScoreDesc(_, _)
SortByScoreDesc(idxs, results) ==
    IF idxs = <<>> THEN <<>>
    ELSE InsertByScoreDesc(SortByScoreDesc(SubSeq(idxs, 1, Len(idxs) - 1), results),
                           idxs[Len(idxs)], results)

(* (None, None) is [found |-> FALSE]; otherwise index is the position in  *)
(* candidates of the returned text, whose result is results[index]        *)
get_best_candidate(cands, target_segments, min_score) ==
    LET results == validate_candidates(cands, target_segments)
        valid_results == ValidResults(results, 1, min_score)
    IN  IF valid_results = <<>>
        THEN [found |-> FALSE, index |-> 0]
        ELSE [found |-> TRUE, index |-> SortByScoreDesc(valid_results, results)[1]]

-----------------------------------------------------------------------------
(* src/audio_engine.py: time base and the waveform                         *)
(*                                                                         *)
(* The waveform y is represented by its amplitude envelope: one integer    *)
(* level per cell of valley_hop_length samples, |y| being constant on a    *)
(* cell.  The RMS curves librosa.feature.rms computes from y are read off  *)
(* this envelope at the frame positions.                                   *)

(* LibrosaAnalyzer.__init__(sample_rate=22050) *)
sample_rate == 22050

(* hop of the onset and RMS frames (librosa default, _detect_onsets_energy) *)
hop_length == 512

(* hop of the fine RMS envelope of _find_energy_valleys *)
valley_hop_length == 256

TicksPerSecond == sample_rate + sample_rate

TicksPerSample == TicksPerSecond \div sample_rate

(* the float n/d seconds, in ticks *)
Secs(n, d) == (n * TicksPerSecond) \div d

(* int(t * sr) *)
ToSample(t) == t \div TicksPerSample

(* librosa.frames_to_time(frames, sr, hop_length) *)
frames_to_time(frame, hop) == frame * hop * TicksPerSample

(* len(y) *)
NumSamples(y) == Len(y) * valley_hop_length

(* |y[sample]|, 0 outside the signal (padding) *)
LevelAt(y, sample) ==
    IF sample >= 0 /\ (sample \div valley_hop_length) + 1 \in DOMAIN y
    THEN y[(sample \div valley_hop_length) + 1]
    ELSE 0

(* librosa.feature.rms(y=audio, hop_length=hop)[0] of audio = y[from:to]: *)
(* 1 + len(audio) // hop frames, frame i read at sample from + i * hop    *)
FrameRms(y, from, to, hop) ==
    [k \in 1..(1 + ((to - from) \div hop)) |->
        IF from + (k - 1) * hop < to THEN LevelAt(y, from + (k - 1) * hop) ELSE 0]

(* np.max, 0 for an empty array *)
MaxSeq(s) ==
    IF s = <<>> THEN 0
    ELSE CHOOSE m \in {s[i] : i \in DOMAIN s} : \A i \in DOMAIN s : s[i] <= m

(* sum of y[s]^2 for from <= s < to, cell by cell *)
SumSquares(y, from, to) ==
    IF from >= to THEN 0
    ELSE LET first_cell == from \div valley_hop_length
             last_cell == (to - 1) \div valley_hop_length
             part == [c \in first_cell..last_cell |->
                        LET lo == Max2(from, c * valley_hop_length)
                            hi == Min2(to, (c + 1) * valley_hop_length)
                            level == LevelAt(y, lo)
                        IN  (hi - lo) * level * level]
         IN  SumRange(part, first_cell, last_cell)

(* the loop "if i - last < min_distance: continue; if not accepted(i):     *)
(* continue; append(i); last = i" over ascending i, given the accepted i   *)
RECURSIVE KeepSpaced(_, _, _)
KeepSpaced(accepted, last_idx, min_distance) ==
    IF accepted = <<>> THEN <<>>
    ELSE IF Head(accepted) - last_idx < min_distance
    THEN KeepSpaced(Tail(accepted), last_idx, min_distance)
    ELSE <<Head(accepted)>> \o KeepSpaced(Tail(accepted), Head(accepted), min_distance)

(* floor of the square root *)
RECURSIVE ISqrtIn(_, _, _)
ISqrtIn(n, lo, hi) ==
    IF lo >= hi THEN lo
    ELSE LET mid == (lo + hi + 1) \div 2
         IN  IF mid * mid <= n THEN ISqrtIn(n, mid, hi) ELSE ISqrtIn(n, lo, mid - 1)

ISqrt(n) == ISqrtIn(n, 0, Min2(n, 40000))

-----------------------------------------------------------------------------
(* src/audio_engine.py: LibrosaAnalyzer *)

(* the test of frame i (0-based) in _detect_onsets_energy: strictly above  *)
(* both neighbours and above threshold = 0.15 of the maximum + 1e-10       *)
IsEnergyPeak(rms, rms_max, i) ==
    /\ rms[i + 1] > rms[i]
    /\ rms[i + 1] > rms[i + 2]
    /\ 100 * rms[i + 1] > 15 * rms_max

(* peaks: i in range(1, len - 1), at least min_distance after the last peak *)
EnergyPeaks(rms, min_distance) ==
    LET rms_max == MaxSeq(rms)
        flags == [i \in 1..(Len(rms) - 2) |-> IsEnergyPeak(rms, rms_max, i)]
    IN  KeepSpaced(TrueIndices(flags, 1, Len(rms) - 2), -min_distance, min_distance)

_detect_onsets_energy(y) ==
    LET rms == FrameRms(y, 0, NumSamples(y), hop_length)
        min_distance == Secs(8, 100) \div (hop_length * TicksPerSample)
        peaks == EnergyPeaks(rms, min_distance)
    IN  [k \in DOMAIN peaks |-> frames_to_time(peaks[k], hop_length)]

(* np.sort *)
RECURSIVE InsertAsc(_, _)
InsertAsc(sorted, x) ==
    IF sorted = <<>> THEN <<x>>
    ELSE IF x < Head(sorted) THEN <<x>> \o sorted
    ELSE <<Head(sorted)>> \o InsertAsc(Tail(sorted), x)

RECURSIVE np_sort(_)
np_sort(xs) == IF xs = <<>> THEN <<>> ELSE InsertAsc(np_sort(Tail(xs)), Head(xs))

(* mutant: of two onsets closer than min_distance the later one is kept *)
RECURSIVE Dedupe_keep_later(_, _, _)
Dedupe_keep_later(unique_onsets, rest, min_distance) ==
    IF rest = <<>> THEN unique_onsets
    ELSE IF Head(rest) - unique_onsets[Len(unique_onsets)] >= min_distance
    THEN Dedupe_keep_later(Append(unique_onsets, Head(rest)), Tail(rest), min_distance)
    ELSE Dedupe_keep_later(
             [unique_onsets EXCEPT ![Len(unique_onsets)] = Head(rest)],
             Tail(rest), min_distance)

(* the deduplication loop of _merge_onsets *)
RECURSIVE Dedupe(_, _, _)
Dedupe(unique_onsets, rest, min_distance) ==
    IF rest = <<>> THEN unique_onsets
    ELSE IF Head(rest) - unique_onsets[Len(unique_onsets)] >= min_distance
    THEN Dedupe(Append(unique_onsets, Head(rest)), Tail(rest), min_distance)
    ELSE Dedupe(unique_onsets, Tail(rest), min_distance)

(* mutant: with no onset at all, one onset at the start of the track *)
_merge_onsets_origin(spectral, energy, min_distance) ==
    LET all_onsets == spectral \o energy
    IN  IF Len(all_onsets) = 0 THEN <<0>>
        ELSE LET sorted == np_sort(all_onsets)
             IN  Dedupe(<<sorted[1]>>, Tail(sorted), min_distance)

_merge_onsets(spectral, energy, min_distance) ==
    LET all_onsets == spectral \o energy
    IN  IF Len(all_onsets) = 0 THEN <<>>
        ELSE LET sorted == np_sort(all_onsets)
             IN  Dedupe(<<sorted[1]>>, Tail(sorted), min_distance)

(* min_distance: float = 0.05 *)
merge_min_distance == Secs(5, 100)

(* mutant: the fallback also runs when the primary detector found 3 onsets *)
RunsEnergyFallback_at_most_3(use_energy, spectral) == use_energy /\ Len(spectral) <= 3

(* the fallback condition of analyze *)
RunsEnergyFallback(use_energy, spectral) == use_energy /\ Len(spectral) < 3

(* the call of _detect_onsets_energy inside analyze *)
EnergyNotRun == [ran |-> FALSE, onsets |-> <<>>]

energy_fallback(y, spectral, use_energy) ==
    IF RunsEnergyFallback(use_energy, spectral)
    THEN [ran |-> TRUE, onsets |-> _detect_onsets_energy(y)]
    ELSE EnergyNotRun

(* onset_times of the AnalysisResult *)
analyze(y, spectral, use_energy) ==
    IF RunsEnergyFallback(use_energy, spectral)
    THEN _merge_onsets(spectral, _detect_onsets_energy(y), merge_min_distance)
    ELSE spectral

-----------------------------------------------------------------------------
(* src/audio_engine.py: PivotFormatter *)

(* default_segment_duration: float = 0.2 *)
default_segment_duration == Secs(2, 10)

(* stress_threshold: float = 1.2 *)
stress_threshold == Rat(12, 10)

(* stress_window_size: int = 5 *)
stress_window_size == 5

(* sustain_threshold: float = 0.4 *)
sustain_threshold == Secs(4, 10)

(* config.MAX_SEGMENT_DURATION, default "1.0" *)
max_segment_duration == Secs(1, 1)

(* mutant: the frame time taken with the hop of the coarse RMS frames *)
ValleyTime_coarse_hop(segment_start, i) == segment_start + i * hop_length * TicksPerSample

(* frame i (0-based) -> time, relative to the segment start *)
ValleyTime(segment_start, i) == segment_start + i * valley_hop_length * TicksPerSample

(* the tests of frame i (0-based) in the loop of _find_energy_valleys,     *)
(* the spacing test aside; rms_normalized = rms / (rms_max + 1e-10)        *)
IsValley(rms, rms_max, segment_start, segment_end, window_size, i) ==
    LET left_peak == MaxSeq(SubSeq(rms, Max2(0, i - window_size) + 1, i))
        right_peak == MaxSeq(SubSeq(rms, i + 2, Min2(Len(rms), i + window_size + 1)))
        valley_time == ValleyTime(segment_start, i)
        margin == Secs(5, 100)
    IN  \* local minimum
        /\ rms[i + 1] < rms[i] /\ rms[i + 1] < rms[i + 2]
        \* not (valley_depth < min_valley_depth), min_valley_depth = 0.3
        /\ 10 * (left_peak + right_peak - 2 * rms[i + 1]) > 6 * rms_max
        \* not (rms_normalized[i] >= 0.5)
        /\ 2 * rms[i + 1] <= rms_max
        /\ segment_start + margin < valley_time
        /\ valley_time < segment_end - margin

_find_energy_valleys(y, segment_start, segment_end) ==
    LET start_sample == Max2(0, ToSample(segment_start))
        end_sample == Min2(NumSamples(y), ToSample(segment_end))
    IN  IF end_sample <= start_sample THEN <<>>
        ELSE LET rms == FrameRms(y, start_sample, end_sample, valley_hop_length)
                 rms_max == MaxSeq(rms)
                 min_distance_frames ==
                     Secs(8, 100) \div (valley_hop_length * TicksPerSample)
                 window_size == Max2(3, min_distance_frames \div 2)
                 last == Len(rms) - window_size - 1
                 flags == [i \in window_size..last |->
                              IsValley(rms, rms_max, segment_start, segment_end,
                                       window_size, i)]
                 valleys == KeepSpaced(TrueIndices(flags, window_size, last),
                                       -min_distance_frames, min_distance_frames)
             IN  IF Len(rms) < 5 THEN <<>>
                 ELSE [k \in DOMAIN valleys |-> ValleyTime(segment_start, valleys[k])]

(* mutant: every sub-segment runs to the end of the original segment *)
SubSegments_to_end(all_points) ==
    [k \in 1..(Len(all_points) - 1) |->
        [time_start |-> all_points[k],
         duration |-> all_points[Len(all_points)] - all_points[k]]]

(* sub-segments between consecutive points of all_points *)
SubSegments(all_points) ==
    [k \in 1..(Len(all_points) - 1) |->
        [time_start |-> all_points[k], duration |-> all_points[k + 1] - all_points[k]]]

(* mutant: all_points = [onset] + valleys, the end of the segment left out *)
RECURSIVE _split_long_segments_no_end(_, _)
_split_long_segments_no_end(segs, y) ==
    IF segs = <<>> THEN <<>>
    ELSE LET onset == Head(segs).time_start
             duration == Head(segs).duration
             rest == _split_long_segments_no_end(Tail(segs), y)
         IN  IF duration <= max_segment_duration THEN <<Head(segs)>> \o rest
             ELSE LET segment_end == onset + duration
                      valleys == _find_energy_valleys(y, onset, segment_end)
                  IN  IF valleys = <<>> THEN <<Head(segs)>> \o rest
                      ELSE SubSegments(<<onset>> \o valleys) \o rest

(* segs: sequence of [time_start, duration], the zip of onset_times and durations *)
RECURSIVE _split_long_segments(_, _)
_split_long_segments(segs, y) ==
    IF segs = <<>> THEN <<>>
    ELSE LET onset == Head(segs).time_start
             duration == Head(segs).duration
             rest == _split_long_segments(Tail(segs), y)
         IN  IF duration <= max_segment_duration THEN <<Head(segs)>> \o rest
             ELSE LET segment_end == onset + duration
                      valleys == _find_energy_valleys(y, onset, segment_end)
                  IN  IF valleys = <<>> THEN <<Head(segs)>> \o rest
                      ELSE SubSegments(<<onset>> \o valleys \o <<segment_end>>) \o rest

(* np.max(librosa.feature.rms(y=y)[0]) *)
GlobalMaxRms(y) == MaxSeq(FrameRms(y, 0, NumSamples(y), hop_length))

(* segment_rms < min_energy_ratio * (global_max_rms + 1e-10), with        *)
(* min_energy_ratio = 0.15, compared on the squares                       *)
BelowEnergyThreshold(y, start_sample, end_sample, global_max_rms) ==
    400 * SumSquares(y, start_sample, end_sample)
        <= 9 * global_max_rms * global_max_rms * (end_sample - start_sample)

(* mutant: a segment is dropped when it is short or quiet *)
IsFiltered_either(seg, y, global_max_rms) ==
    LET start_sample == Max2(0, ToSample(seg.time_start))
        end_sample == Min2(NumSamples(y), ToSample(seg.time_start + seg.duration))
    IN  \/ seg.duration < Secs(15, 100)
        \/ /\ end_sample > start_sample
           /\ BelowEnergyThreshold(y, start_sample, end_sample, global_max_rms)

(* the test of one segment in _filter_low_energy_segments *)
IsFiltered(seg, y, global_max_rms) ==
    /\ seg.duration < Secs(15, 100)
    /\ LET start_sample == Max2(0, ToSample(seg.time_start))
           end_sample == Min2(NumSamples(y), ToSample(seg.time_start + seg.duration))
       IN  /\ end_sample > start_sample
           /\ BelowEnergyThreshold(y, start_sample, end_sample, global_max_rms)

(* mutant: the segment after a dropped one is not examined *)
RECURSIVE FilterLoop_skip_next(_, _, _)
FilterLoop_skip_next(segs, y, global_max_rms) ==
    IF segs = <<>> THEN <<>>
    ELSE IF IsFiltered(Head(segs), y, global_max_rms)
    THEN IF Len(segs) = 1 THEN <<>>
         ELSE <<segs[2]>> \o FilterLoop_skip_next(Tail(Tail(segs)), y, global_max_rms)
    ELSE <<Head(segs)>> \o FilterLoop_skip_next(Tail(segs), y, global_max_rms)

RECURSIVE FilterLoop(_, _, _)
FilterLoop(segs, y, global_max_rms) ==
    IF segs = <<>> THEN <<>>
    ELSE IF IsFiltered(Head(segs), y, global_max_rms)
    THEN FilterLoop(Tail(segs), y, global_max_rms)
    ELSE <<Head(segs)>> \o FilterLoop(Tail(segs), y, global_max_rms)

_filter_low_energy_segments(segs, y) ==
    IF Len(segs) = 0 THEN segs ELSE FilterLoop(segs, y, GlobalMaxRms(y))

(* RMS of a segment in hundredths of a level *)
_calculate_segment_rms(y, time_start, duration) ==
    LET start_sample == Max2(0, ToSample(time_start))
        end_sample == Min2(NumSamples(y), ToSample(time_start + duration))
    IN  IF end_sample <= start_sample THEN 0
        ELSE ISqrt(((100 * SumSquares(y, start_sample, end_sample))
                        \div (end_sample - start_sample)) * 100)

(* mutant: stressed when the RMS reaches threshold x local average *)
_detect_stress_of_at_least(self, rms_values) ==
    LET n == Len(rms_values)
        half_window == self.stress_window_size \div 2
    IN  [i \in 1..n |->
            LET window_start == Max2(0, (i - 1) - half_window)
                window_end == Min2(n, (i - 1) + half_window + 1)
                local_rms == SubSeq(rms_values, window_start + 1, window_end)
                local_sum == SumSeq(local_rms)
            IN  IF local_sum = 0 THEN FALSE
                ELSE rms_values[i] * self.stress_threshold[2] * Len(local_rms)
                        >= self.stress_threshold[1] * local_sum]

(* mutant: window_end = min(n, i + half_window), one neighbour short *)
_detect_stress_of_short_window(self, rms_values) ==
    LET n == Len(rms_values)
        half_window == self.stress_window_size \div 2
    IN  [i \in 1..n |->
            LET window_start == Max2(0, (i - 1) - half_window)
                window_end == Min2(n, (i - 1) + half_window)
                local_rms == SubSeq(rms_values, window_start + 1, window_end)
                local_sum == SumSeq(local_rms)
            IN  IF local_sum = 0 THEN FALSE
                ELSE rms_values[i] * self.stress_threshold[2] * Len(local_rms)
                        > self.stress_threshold[1] * local_sum]

(* _detect_stress of a formatter with the given stress_threshold and       *)
(* stress_window_size                                                      *)
_detect_stress_of(self, rms_values) ==
    LET n == Len(rms_values)
        half_window == self.stress_window_size \div 2
    IN  [i \in 1..n |->
            LET window_start == Max2(0, (i - 1) - half_window)
                window_end == Min2(n, (i - 1) + half_window + 1)
                local_rms == SubSeq(rms_values, window_start + 1, window_end)
                local_sum == SumSeq(local_rms)
            IN  IF local_sum = 0 THEN FALSE
                ELSE rms_values[i] * self.stress_threshold[2] * Len(local_rms)
                        > self.stress_threshold[1] * local_sum]

(* PivotFormatter(): the thresholds AudioEngine's formatter has *)
DefaultFormatter ==
    [stress_threshold |-> stress_threshold, stress_window_size |-> stress_window_size]

_detect_stress(rms_values) == _detect_stress_of(DefaultFormatter, rms_values)

_detect_sustain(durations) == [i \in DOMAIN durations |-> durations[i] > sustain_threshold]

(* f0[mask] without the NaN (0) frames: frames k (0-based) with            *)
(* onset_time <= times[k] < end_time, times = librosa.times_like(f0)      *)
ValidPitches(f0, onset_time, end_time) ==
    LET flags == [k \in 1..Len(f0) |->
                     LET t == frames_to_time(k - 1, hop_length)
                     IN  t >= onset_time /\ t < end_time /\ f0[k] # 0]
        frames == TrueIndices(flags, 1, Len(f0))
    IN  [j \in DOMAIN frames |-> f0[frames[j]]]

(* the k-th smallest element *)
KthSmallest(xs, k) ==
    CHOOSE v \in {xs[i] : i \in DOMAIN xs} :
        /\ Cardinality({i \in DOMAIN xs : xs[i] < v}) < k
        /\ Cardinality({i \in DOMAIN xs : xs[i] <= v}) >= k

(* twice np.median *)
Median2(xs) ==
    LET n == Len(xs)
    IN  IF n % 2 = 1 THEN 2 * KthSmallest(xs, (n + 1) \div 2)
        ELSE KthSmallest(xs, n \div 2) + KthSmallest(xs, (n \div 2) + 1)

(* mutant: the absolute bucket is tried first, the trend only for "mid" *)
PitchLabel_bucket_first(valid_pitches) ==
    IF Len(valid_pitches) = 0 THEN "mid"
    ELSE LET n == Len(valid_pitches)
             median2 == Median2(valid_pitches)
             first == SubSeq(valid_pitches, 1, n \div 3)
             last == SubSeq(valid_pitches, n - ((n + 2) \div 3) + 1, n)
         IN  IF median2 < 2 * 150 THEN "low"
             ELSE IF median2 > 2 * 300 THEN "high"
             ELSE IF n >= 3 /\ 5 * SumSeq(last) * Len(first) > 6 * SumSeq(first) * Len(last)
             THEN "rising"
             ELSE IF n >= 3 /\ 5 * SumSeq(last) * Len(first) < 4 * SumSeq(first) * Len(last)
             THEN "falling"
             ELSE "mid"

(* the label of one segment, from its voiced pitch values *)
PitchLabel(valid_pitches) ==
    IF Len(valid_pitches) = 0 THEN "mid"
    ELSE LET n == Len(valid_pitches)
             median2 == Median2(valid_pitches)
             \* valid_pitches[:n//3] and valid_pitches[-n//3:], (-n)//3 = -ceil(n/3)
             first == SubSeq(valid_pitches, 1, n \div 3)
             last == SubSeq(valid_pitches, n - ((n + 2) \div 3) + 1, n)
             bucket == IF median2 < 2 * 150 THEN "low"
                       ELSE IF median2 > 2 * 300 THEN "high"
                       ELSE "mid"
         IN  IF n >= 3
             THEN \* ratio = end_pitch / start_pitch against 1.2 and 0.8
                  IF 5 * SumSeq(last) * Len(first) > 6 * SumSeq(first) * Len(last)
                  THEN "rising"
                  ELSE IF 5 * SumSeq(last) * Len(first) < 4 * SumSeq(first) * Len(last)
                  THEN "falling"
                  ELSE bucket
             ELSE bucket

(* pyin_result: [raised |-> BOOLEAN, f0 |-> Hz per frame, 0 for an unvoiced frame] *)
_detect_pitch(y, pyin_result, segs) ==
    IF Len(y) = 0 THEN [i \in DOMAIN segs |-> "mid"]
    ELSE IF pyin_result.raised THEN [i \in DOMAIN segs |-> "mid"]
    ELSE [i \in DOMAIN segs |->
            PitchLabel(ValidPitches(pyin_result.f0, segs[i].time_start,
                                    segs[i].time_start + segs[i].duration))]

(* first pass of format: duration[i] = onset[i+1] - onset[i], default for the last *)
FirstPassDurations(onsets) ==
    [i \in DOMAIN onsets |->
        IF i < Len(onsets) THEN onsets[i + 1] - onsets[i]
        ELSE default_segment_duration]

(* the segments of the single block of the PivotJSON; the formatter is     *)
(* built as PivotFormatter() (phonetic_analyzer=None: audio_phonemes "")   *)
format(onsets, y, pyin_result) ==
    LET durations0 == FirstPassDurations(onsets)
        zipped == [i \in DOMAIN onsets |->
                      [time_start |-> onsets[i], duration |-> durations0[i]]]
        refined == _filter_low_energy_segments(_split_long_segments(zipped, y), y)
        rms_values == [i \in DOMAIN refined |->
                          _calculate_segment_rms(y, refined[i].time_start,
                                                 refined[i].duration)]
        stressed == _detect_stress(rms_values)
        sustained == _detect_sustain([i \in DOMAIN refined |-> refined[i].duration])
        pitch_contours == _detect_pitch(y, pyin_result, refined)
    IN  [i \in DOMAIN refined |->
            [time_start |-> refined[i].time_start,
             duration |-> refined[i].duration,
             is_stressed |-> stressed[i],
             is_sustained |-> sustained[i],
             pitch_contour |-> pitch_contours[i],
             audio_phonemes |-> <<>>]]

(* the single block of the PivotJSON *)
Block(segs) == [id |-> 1, syllable_target |-> Len(segs), segments |-> segs]

-----------------------------------------------------------------------------
(* src/audio_engine.py: WhisperPhoneticAnalyzer, PhoneticAnalyzer *)

(* the tags of classify_sound_type *)
TagVowel == <<"[", "v", "o", "w", "e", "l", "]">>

TagConsonant == <<"[", "c", "o", "n", "s", "o", "n", "a", "n", "t", "]">>

TagMid == <<"[", "m", "i", "d", "]">>

(* classify_sound_type(y_segment, sr): "[mid]" for an empty segment, else  *)
(* the tag the spectral features of the segment give (sound_type)          *)
classify_sound_type(num_samples, sound_type) ==
    IF num_samples = 0 THEN TagMid ELSE sound_type

(* a transcribed word: start, end and syllable_list, the syllables that    *)
(* g2p and the onset-maximisation split give for its text (<<>> when the   *)
(* text is empty, has no phoneme, or g2p raises). The syllables of a word  *)
(* share its duration equally.                                             *)
WordSyllables(word) ==
    IF word.end <= word.start \/ word.syllable_list = <<>> THEN <<>>
    ELSE LET num_syllables == Len(word.syllable_list)
             syl_duration == (word.end - word.start) \div num_syllables
         IN  [i \in 1..num_syllables |->
                 [phonemes |-> word.syllable_list[i],
                  start |-> word.start + (i - 1) * syl_duration]]

RECURSIVE _words_to_syllables_with_timing(_)
_words_to_syllables_with_timing(words) ==
    IF words = <<>> THEN <<>>
    ELSE WordSyllables(Head(words)) \o _words_to_syllables_with_timing(Tail(words))

(* syllables.sort(key=lambda x: x["start"]): stable *)
RECURSIVE InsertByStart(_, _)
InsertByStart(sorted, syl) ==
    IF sorted = <<>> THEN <<syl>>
    ELSE IF syl.start < Head(sorted).start THEN <<syl>> \o sorted
    ELSE <<Head(sorted)>> \o InsertByStart(Tail(sorted), syl)

RECURSIVE SortByStart(_)
SortByStart(syllables) ==
    IF syllables = <<>> THEN <<>>
    ELSE InsertByStart(SortByStart(SubSeq(syllables, 1, Len(syllables) - 1)),
                       syllables[Len(syllables)])

(* mutant: a syllable goes to the segment whose time range holds its start *)
_align_words_to_segments_by_time(words, segs) ==
    LET syllables == SortByStart(_words_to_syllables_with_timing(words))
    IN  [i \in DOMAIN segs |->
            LET inside == {k \in DOMAIN syllables :
                              /\ segs[i].time_start <= syllables[k].start
                              /\ syllables[k].start < segs[i].time_start + segs[i].duration}
            IN  IF inside = {} THEN <<>>
                ELSE syllables[CHOOSE k \in inside : \A j \in inside : k <= j].phonemes]

(* segs: the [time_start, duration] of the segments *)
_align_words_to_segments(words, segs) ==
    IF words = <<>> \/ segs = <<>> THEN [i \in DOMAIN segs |-> <<>>]
    ELSE LET unsorted == _words_to_syllables_with_timing(words)
         IN  IF unsorted = <<>> THEN [i \in DOMAIN segs |-> <<>>]
             ELSE LET syllables == SortByStart(unsorted)
                  IN  [i \in DOMAIN segs |->
                          IF i <= Min2(Len(syllables), Len(segs))
                          THEN syllables[i].phonemes
                          ELSE <<>>]

(* WhisperPhoneticAnalyzer.analyze_segments_full_audio: words is what      *)
(* transcribe_full_audio returns (<<>> when nothing is transcribed)        *)
analyze_segments_full_audio(words, segs) ==
    IF words = <<>> THEN [i \in DOMAIN segs |-> <<>>]
    ELSE _align_words_to_segments(words, segs)

(* PHONETIC_PADDING, default "0.05" *)
phonetic_padding == Secs(5, 100)

(* analyzer: the PhoneticAnalyzer after _lazy_init.                        *)
(*   enabled, fallback_enabled: its fields                                 *)
(*   backend: "none" (no backend loaded), "whisper_full" (Whisper in       *)
(*     full-audio mode), "segment" (Whisper or Allosaurus per segment)     *)
(*   words: the transcription of the track by Whisper                      *)
(*   recognised: what the per-segment recogniser returns for a segment     *)
(*   sound_type: the tag classify_sound_type gives the track's segments    *)
analyze_segments(analyzer, y, segs) ==
    LET start_sample(i) == Max2(0, ToSample(segs[i].time_start))
        end_sample(i) ==
            Min2(NumSamples(y), ToSample(segs[i].time_start + segs[i].duration))
        fallback(i) ==
            IF end_sample(i) > start_sample(i)
            THEN classify_sound_type(end_sample(i) - start_sample(i), analyzer.sound_type)
            ELSE TagMid
        padding_samples == ToSample(phonetic_padding)
        padded_start(i) == Max2(0, ToSample(segs[i].time_start) - padding_samples)
        padded_end(i) ==
            Min2(NumSamples(y),
                 ToSample(segs[i].time_start + segs[i].duration) + padding_samples)
    IN  IF ~analyzer.enabled \/ analyzer.backend = "none"
        THEN IF analyzer.fallback_enabled
             THEN [i \in DOMAIN segs |-> fallback(i)]
             ELSE [i \in DOMAIN segs |-> <<>>]
        ELSE IF analyzer.backend = "whisper_full"
        THEN LET phonemes == analyze_segments_full_audio(analyzer.words, segs)
             IN  [i \in DOMAIN segs |->
                     IF analyzer.fallback_enabled /\ phonemes[i] = <<>>
                            /\ end_sample(i) > start_sample(i)
                     THEN classify_sound_type(end_sample(i) - start_sample(i),
                                              analyzer.sound_type)
                     ELSE phonemes[i]]
        ELSE [i \in DOMAIN segs |->
                 IF padded_end(i) <= padded_start(i)
                 THEN IF analyzer.fallback_enabled THEN TagMid ELSE <<>>
                 ELSE IF analyzer.recognised # <<>> THEN analyzer.recognised
                 ELSE IF analyzer.fallback_enabled
                 THEN classify_sound_type(
                          Max2(0, Min2(NumSamples(y),
                                       ToSample(segs[i].time_start + segs[i].duration))
                                  - Max2(0, ToSample(segs[i].time_start))),
                          analyzer.sound_type)
                 ELSE <<>>]

(* format of a PivotFormatter(phonetic_analyzer=analyzer), given the       *)
(* segments built without an analyzer: audio_phonemes from analyze_segments *)
format_with_analyzer(analyzer, built, y) ==
    IF ~analyzer.present THEN built
    ELSE LET audio_phonemes ==
                 analyze_segments(analyzer, y,
                     [i \in DOMAIN built |->
                         [time_start |-> built[i].time_start,
                          duration |-> built[i].duration]])
         IN  [i \in DOMAIN built |->
                 [built[i] EXCEPT !.audio_phonemes = audio_phonemes[i]]]

(* PhoneticAnalyzer.__init__(enabled): enabled_arg is "none" (read          *)
(* config.PHONETIC_ENABLED), "true" or "false"; cfg holds PHONETIC_ENABLED, *)
(* PHONETIC_FALLBACK_ENABLED and PHONETIC_MODEL                            *)
PhoneticAnalyzer(enabled_arg, cfg) ==
    LET explicitly_disabled == enabled_arg = "false"
    IN  [_explicitly_disabled |-> explicitly_disabled,
         fallback_enabled |-> IF explicitly_disabled THEN FALSE
                              ELSE cfg.PHONETIC_FALLBACK_ENABLED,
         phonetic_model |-> cfg.PHONETIC_MODEL,
         enabled |-> IF enabled_arg = "none" THEN cfg.PHONETIC_ENABLED
                     ELSE enabled_arg = "true",
         model |-> FALSE,
         _whisper_analyzer |-> FALSE,
         _initialized |-> FALSE,
         _use_whisper |-> cfg.PHONETIC_MODEL = "whisper",
         _use_full_audio |-> cfg.WHISPER_USE_FULL_AUDIO]

(* config.py defaults *)
DefaultConfig ==
    [PHONETIC_ENABLED |-> TRUE, PHONETIC_FALLBACK_ENABLED |-> TRUE,
     PHONETIC_MODEL |-> "whisper", WHISPER_USE_FULL_AUDIO |-> TRUE]

(* no backend load has been attempted *)
NoLoads == [whisper |-> 0, allosaurus |-> 0]

(* mutant: a failed Allosaurus load leaves enabled as it was *)
_lazy_init_keeps_enabled(self, loads, calls) ==
    IF self._initialized THEN [self |-> self, calls |-> calls]
    ELSE IF ~self.enabled
    THEN [self |-> [self EXCEPT !._initialized = TRUE], calls |-> calls]
    ELSE LET tried == IF self._use_whisper
                      THEN [calls EXCEPT !.whisper = @ + 1] ELSE calls
         IN  IF self._use_whisper /\ loads.whisper = "available"
             THEN [self |-> [self EXCEPT !._whisper_analyzer = TRUE, !._initialized = TRUE],
                   calls |-> tried]
             ELSE LET fell_back == [self EXCEPT !._use_whisper = FALSE,
                                                !._whisper_analyzer = FALSE]
                  IN  [self |-> IF loads.allosaurus = "ok"
                                THEN [fell_back EXCEPT !.model = TRUE, !._initialized = TRUE]
                                ELSE [fell_back EXCEPT !._initialized = TRUE],
                       calls |-> [tried EXCEPT !.allosaurus = @ + 1]]

(* PhoneticAnalyzer._lazy_init(): loads.whisper is what                    *)
(* WhisperPhoneticAnalyzer() and its is_available give ("available",       *)
(* "unavailable", "raises"), loads.allosaurus what read_recognizer gives   *)
(* ("ok", "import_error", "raises"); calls counts the load attempts.       *)
(* Returns the object after the call and the attempts made so far.         *)
_lazy_init(self, loads, calls) ==
    IF self._initialized THEN [self |-> self, calls |-> calls]
    ELSE IF ~self.enabled
    THEN [self |-> [self EXCEPT !._initialized = TRUE], calls |-> calls]
    ELSE LET tried == IF self._use_whisper
                      THEN [calls EXCEPT !.whisper = @ + 1] ELSE calls
         IN  IF self._use_whisper /\ loads.whisper = "available"
             THEN [self |-> [self EXCEPT !._whisper_analyzer = TRUE, !._initialized = TRUE],
                   calls |-> tried]
             ELSE \* Whisper unavailable, raised, or not configured
                  LET fell_back == [self EXCEPT !._use_whisper = FALSE,
                                                !._whisper_analyzer = FALSE]
                  IN  [self |-> IF loads.allosaurus = "ok"
                                THEN [fell_back EXCEPT !.model = TRUE, !._initialized = TRUE]
                                ELSE [fell_back EXCEPT !.enabled = FALSE,
                                                       !._initialized = TRUE],
                       calls |-> [tried EXCEPT !.allosaurus = @ + 1]]

(* has_backend = (self._use_whisper and self._whisper_analyzer)            *)
(*               or self.model is not None                                 *)
has_backend(self) == (self._use_whisper /\ self._whisper_analyzer) \/ self.model

(* PhoneticAnalyzer.analyze_segment(y_segment, sr, use_fallback=...) after *)
(* its _lazy_init: seg.samples is len(y_segment), seg.long_enough whether  *)
(* its duration reaches min_duration, seg.recognised what the backend      *)
(* returns for it ("" when it recognises nothing), seg.sound_type the tag  *)
(* of its spectral features                                                *)
analyze_segment(self, seg, use_fallback) ==
    LET fallback == IF use_fallback /\ self.fallback_enabled
                    THEN classify_sound_type(seg.samples, seg.sound_type)
                    ELSE <<>>
    IN  IF ~self.enabled \/ ~has_backend(self) THEN fallback
        ELSE IF ~seg.long_enough THEN fallback
        ELSE IF seg.recognised # <<>> THEN seg.recognised
        ELSE fallback

(* PhoneticAnalyzer.analyze_segments(y, sr, onset_times, durations) after  *)
(* its _lazy_init: seg.samples is the size of the clamped sample range of  *)
(* the segment, seg.padded its size with the padding, seg.recognised what  *)
(* the backend yields for it (after the retry of the Allosaurus path)      *)
analyze_segments_of(self, segs) ==
    IF ~self.enabled \/ ~has_backend(self)
    THEN IF self.fallback_enabled
         THEN [i \in DOMAIN segs |->
                  IF segs[i].samples > 0
                  THEN classify_sound_type(segs[i].samples, segs[i].sound_type)
                  ELSE TagMid]
         ELSE [i \in DOMAIN segs |-> <<>>]
    ELSE IF self._use_whisper /\ self._whisper_analyzer /\ self._use_full_audio
    THEN [i \in DOMAIN segs |->
             IF self.fallback_enabled /\ segs[i].recognised = <<>> /\ segs[i].samples > 0
             THEN classify_sound_type(segs[i].samples, segs[i].sound_type)
             ELSE segs[i].recognised]
    ELSE [i \in DOMAIN segs |->
             IF segs[i].padded = 0
             THEN IF self.fallback_enabled THEN TagMid ELSE <<>>
             ELSE IF segs[i].recognised # <<>> THEN segs[i].recognised
             ELSE IF self.fallback_enabled
             THEN classify_sound_type(segs[i].samples, segs[i].sound_type)
             ELSE <<>>]

-----------------------------------------------------------------------------
(* src/core_pipeline.py: CorePipeline *)

(* the stages of run_pipeline / run_full_pipeline, in the order they run *)
Stages == <<"audio", "prompt", "generation", "validation">>

(* which stage raises ("none": no stage raises) *)
StageFailures == {"none", "audio", "prompt", "generation", "validation"}

StageIndex(stage) == CHOOSE k \in DOMAIN Stages : Stages[k] = stage

(* the stages entered when the stage `failing` raises *)
StagesRun(failing) ==
    IF failing = "none" THEN Stages ELSE SubSeq(Stages, 1, StageIndex(failing))

NoWinner == [best_line |-> [found |-> FALSE, index |-> 0], best_score |-> Zero]

(* for candidate, result in zip(candidates, validations):                  *)
(*     if result.is_valid and result.score > best_score: ...               *)
RECURSIVE SelectionLoop(_, _, _)
SelectionLoop(validations, i, acc) ==
    IF i > Len(validations) THEN acc
    ELSE IF validations[i].is_valid /\ RLt(acc.best_score, validations[i].score)
    THEN SelectionLoop(validations, i + 1,
                       [best_line |-> [found |-> TRUE, index |-> i],
                        best_score |-> validations[i].score])
    ELSE SelectionLoop(validations, i + 1, acc)

NoPipeline ==
    [entry |-> "none", raised |-> FALSE, failed |-> "none", stages |-> <<>>,
     candidates |-> <<>>,
     validations |-> <<>>, best_line |-> NoWinner.best_line, best_score |-> Zero]

(* run_pipeline(audio_path): file_exists is os.path.exists(audio_path),    *)
(* grid the segments of the block the audio stage yields, generated the    *)
(* candidates the generation stage yields, failing the stage that raises.  *)
(* Stages 1 to 3 catch the exception and return (None, 0.0); stage 4 has   *)
(* no handler. `failed` records the stage that raised, `raised` whether    *)
(* the exception leaves the call.                                          *)
run_pipeline(file_exists, failing, grid, generated) ==
    IF ~file_exists
    THEN [NoPipeline EXCEPT !.entry = "run_pipeline"]
    ELSE IF failing \in {"audio", "prompt", "generation"}
    THEN [NoPipeline EXCEPT !.entry = "run_pipeline", !.stages = StagesRun(failing),
                            !.failed = failing]
    ELSE IF failing = "validation"
    THEN [NoPipeline EXCEPT !.entry = "run_pipeline", !.stages = StagesRun(failing),
                            !.failed = failing, !.raised = TRUE]
    ELSE LET validations == validate_candidates(generated, grid)
             selected == SelectionLoop(validations, 1, NoWinner)
         IN  [entry |-> "run_pipeline", raised |-> FALSE, failed |-> "none",
              stages |-> Stages,
              candidates |-> <<>>, validations |-> <<>>,
              best_line |-> selected.best_line, best_score |-> selected.best_score]

(* run_full_pipeline(audio_path): one try block around all four stages;    *)
(* candidates and validations keep what was assigned before the exception  *)
run_full_pipeline(file_exists, failing, grid, generated) ==
    IF ~file_exists
    THEN [NoPipeline EXCEPT !.entry = "run_full_pipeline"]
    ELSE IF failing \in {"audio", "prompt", "generation"}
    THEN [NoPipeline EXCEPT !.entry = "run_full_pipeline", !.stages = StagesRun(failing),
                            !.failed = failing]
    ELSE IF failing = "validation"
    THEN [NoPipeline EXCEPT !.entry = "run_full_pipeline", !.stages = StagesRun(failing),
                            !.failed = failing, !.candidates = generated]
    ELSE LET validations == validate_candidates(generated, grid)
             selected == SelectionLoop(validations, 1, NoWinner)
         IN  [entry |-> "run_full_pipeline", raised |-> FALSE, failed |-> "none",
              stages |-> Stages,
              candidates |-> generated, validations |-> validations,
              best_line |-> selected.best_line, best_score |-> selected.best_score]

-----------------------------------------------------------------------------
(* Inputs of the validator *)

AA1 == <<"A", "A", "1">>

IY0 == <<"I", "Y", "0">>

AW2 == <<"A", "W", "2">>

M == <<"M">>

SP == <<" ">>

(* tokens g2p_en emits: stressed vowels, a consonant, the word separator *)
Alphabet == {AA1, IY0, AW2, M, SP}

(* Segment.audio_phonemes: none, blank, recognised phonemes *)
AudioPool == {<<>>, <<" ">>, <<"m", " ", "A">>}

SegmentPool == [is_stressed : BOOLEAN, audio_phonemes : AudioPool]

WeightPairs == {<<DefaultRhythmWeight, DefaultPhoneticWeight>>, <<One, One>>}

CandidatePool == {<<AA1, IY0>>, <<M, AA1, IY0>>, <<AW2, IY0>>, <<AA1>>}

NoResult == [is_valid |-> FALSE, score |-> Zero, groove_score |-> Zero,
             phonetic_score |-> Zero, syllable_count |-> 0, stress_markers |-> <<>>]

NoBest == [found |-> FALSE, index |-> 0]

-----------------------------------------------------------------------------
(* Specification of the validator: one call of validate_line or of        *)
(* get_best_candidate on inputs drawn by Init                             *)

(* PivotFormatter(): phonetic_analyzer=None *)
NoAnalyzer ==
    [present |-> FALSE, enabled |-> FALSE, backend |-> "none",
     fallback_enabled |-> FALSE, words |-> <<>>, recognised |-> <<>>,
     sound_type |-> TagMid]

(* no PhoneticAnalyzer call is modelled *)
NoLazy ==
    /\ analyzer_state = PhoneticAnalyzer("false", DefaultConfig)
    /\ backend_loads = [whisper |-> "raises", allosaurus |-> "import_error"]
    /\ load_calls = NoLoads

(* no helper of the formatter is called *)
NoHelpers ==
    /\ spans = <<>>
    /\ segment_rms = <<>>
    /\ formatter = DefaultFormatter
    /\ returned = <<>>

NoAudio ==
    /\ phonetic_analyzer = NoAnalyzer
    /\ energy_detection = EnergyNotRun
    /\ audio_signal = <<>>
    /\ spectral_onsets = <<>>
    /\ pyin = [raised |-> TRUE, f0 |-> <<>>]
    /\ use_energy_detection = TRUE
    /\ onset_times = <<>>

InitLine ==
    /\ pc = "line"
    /\ text \in SeqsUpTo(Alphabet, MaxPhonemes)
    /\ segments \in SeqsUpTo(SegmentPool, MaxSegments)
    /\ \E w \in WeightPairs : rhythm_weight = w[1] /\ phonetic_weight = w[2]
    /\ result = NoResult
    /\ candidates = <<>>
    /\ best = NoBest
    /\ pipeline = NoPipeline
    /\ NoAudio
    /\ NoHelpers
    /\ NoLazy

InitBatch ==
    /\ pc = "batch"
    /\ text = <<>>
    /\ segments \in SeqsUpTo(SegmentPool, MaxSegments)
    /\ rhythm_weight = DefaultRhythmWeight
    /\ phonetic_weight = DefaultPhoneticWeight
    /\ result = NoResult
    /\ candidates \in SeqsUpTo(CandidatePool, MaxCandidates)
    /\ best = NoBest
    /\ pipeline = NoPipeline
    /\ NoAudio
    /\ NoHelpers
    /\ NoLazy

Init == InitLine \/ InitBatch

ValidateLine ==
    /\ pc = "line"
    /\ pc' = "validated"
    /\ result' = validate_line(text, segments, rhythm_weight, phonetic_weight)
    /\ UNCHANGED <<text, segments, rhythm_weight, phonetic_weight, candidates, best,
                   pipeline, audioVars, helperVars, lazyVars>>

GetBestCandidate ==
    /\ pc = "batch"
    /\ pc' = "selected"
    /\ best' = get_best_candidate(candidates, segments, DefaultMinScore)
    /\ UNCHANGED <<text, segments, rhythm_weight, phonetic_weight, candidates, result,
                   pipeline, audioVars, helperVars, lazyVars>>

(* the grid and the generated batch are the ones drawn by InitBatch *)
RunPipeline ==
    /\ pc = "batch"
    /\ pc' = "pipeline_done"
    /\ \E file_exists \in BOOLEAN, failing \in StageFailures :
          pipeline' = run_pipeline(file_exists, failing, segments, candidates)
    /\ UNCHANGED <<text, segments, rhythm_weight, phonetic_weight, candidates, result,
                   best, audioVars, helperVars, lazyVars>>

RunFullPipeline ==
    /\ pc = "batch"
    /\ pc' = "pipeline_done"
    /\ \E file_exists \in BOOLEAN, failing \in StageFailures :
          pipeline' = run_full_pipeline(file_exists, failing, segments, candidates)
    /\ UNCHANGED <<text, segments, rhythm_weight, phonetic_weight, candidates, result,
                   best, audioVars, helperVars, lazyVars>>

Next == ValidateLine \/ GetBestCandidate \/ RunPipeline \/ RunFullPipeline

Spec == Init /\ [][Next]_vars

-----------------------------------------------------------------------------
(* Inputs of the audio engine *)

(* an envelope of TrackFrames frames of hop_length samples, two cells per  *)
(* frame: base level, frames raised to a one-frame peak, quiet frames,     *)
(* cells with a dip                                                        *)
Envelope(base, peaks, quiet, dips) ==
    [c \in 1..(TrackFrames * (hop_length \div valley_hop_length)) |->
        LET cell == c - 1
            frame == cell \div (hop_length \div valley_hop_length)
        IN  IF cell \in dips THEN 1
            ELSE IF (cell - 1) \in dips \/ (cell + 1) \in dips THEN 4
            ELSE IF frame \in peaks THEN 9
            ELSE IF frame \in quiet THEN 1
            ELSE base]

Silence == Envelope(0, {}, {}, {})

SustainedNote == Envelope(8, {}, {}, {})

(* a loud onset, a breath, then a long note with one energy valley *)
Phrase == Envelope(8, {1, 7, 53}, {2, 3, 4, 5}, {60})

(* the same with two valleys in the long note and a quiet tail *)
PhraseTwoValleys == Envelope(8, {1, 7, 40}, {2, 3, 4, 5, 58, 59, 60, 61, 62, 63}, {50, 80})

EnvelopePool == {Silence, SustainedNote, Phrase, PhraseTwoValleys}

(* frames the spectral detector may report (onset_detect, units='frames') *)
OnsetFrames == {0, 2, 4, 6, 52}

IsAscending(xs) == \A i \in 1..(Len(xs) - 1) : xs[i] <= xs[i + 1]

(* _detect_onsets_spectral: librosa.onset.onset_detect(backtrack=True)     *)
(* returns frames in ascending order; backtracking moves each peak to the  *)
(* preceding local minimum of the envelope and several peaks may share     *)
(* one, so a frame may be repeated.                                        *)
SpectralOutputs ==
    {[k \in DOMAIN fs |-> frames_to_time(fs[k], hop_length)] :
        fs \in {xs \in SeqsUpTo(OnsetFrames, MaxOnsets) : IsAscending(xs)}}

F0Len == 1 + TrackFrames

(* librosa.pyin on y: raises, or an f0 per frame (0: unvoiced) *)
PyinPool ==
    { [raised |-> TRUE, f0 |-> <<>>],
      [raised |-> FALSE, f0 |-> [k \in 1..F0Len |-> 0]],
      [raised |-> FALSE, f0 |-> [k \in 1..F0Len |-> 120]],
      [raised |-> FALSE, f0 |-> [k \in 1..F0Len |-> 145 + 5 * k]] }

SylMAA == <<"m", " ", "a", "a">>

SylNIY == <<"n", " ", "i", "y">>

SylTUW == <<"t", " ", "u", "w">>

(* a two-syllable word *)
WordA == [syllable_list |-> <<SylMAA, SylNIY>>, start |-> 0, end |-> 40960]

(* a one-syllable word that starts inside WordA *)
WordB == [syllable_list |-> <<SylTUW>>, start |-> 10240, end |-> 30720]

(* a word without phonemes, a word without duration *)
WordNoPhonemes == [syllable_list |-> <<>>, start |-> 0, end |-> 10240]

WordNoDuration == [syllable_list |-> <<SylTUW>>, start |-> 10240, end |-> 10240]

(* the analyzer of the formatter: none, explicitly disabled, no backend    *)
(* loaded (tags only), Whisper in full-audio mode, a per-segment backend   *)
AnalyzerPool ==
    {NoAnalyzer, [NoAnalyzer EXCEPT !.present = TRUE]}
    \cup {[NoAnalyzer EXCEPT !.present = TRUE, !.fallback_enabled = TRUE,
                             !.sound_type = tag] : tag \in {TagVowel, TagConsonant}}
    \cup {[NoAnalyzer EXCEPT !.present = TRUE, !.enabled = TRUE,
                             !.backend = "whisper_full", !.words = w] :
              w \in {<<WordA>>, <<WordA, WordB>>, <<WordNoPhonemes, WordNoDuration>>}}
    \cup {[NoAnalyzer EXCEPT !.present = TRUE, !.enabled = TRUE,
                             !.backend = "whisper_full", !.fallback_enabled = TRUE,
                             !.sound_type = TagVowel],
          [NoAnalyzer EXCEPT !.present = TRUE, !.enabled = TRUE,
                             !.backend = "segment", !.fallback_enabled = TRUE,
                             !.recognised = <<"m", " ", "A">>],
          [NoAnalyzer EXCEPT !.present = TRUE, !.enabled = TRUE,
                             !.backend = "segment"]}

(* the grids format builds, one for each analyzer the formatter may hold *)
FormatOutcomes(onsets, y, pyin_result) ==
    LET built == format(onsets, y, pyin_result)
    IN  {[analyzer |-> analyzer,
          segments |-> format_with_analyzer(analyzer, built, y)] :
            analyzer \in AnalyzerPool}

(* candidate texts for a grid of n segments: n unstressed syllables, n     *)
(* stressed syllables, one syllable too many                               *)
GridTexts(n) ==
    {[i \in 1..n |-> IY0], [i \in 1..n |-> AA1], [i \in 1..(n + 1) |-> IY0]}

NoValidator ==
    /\ text = <<>>
    /\ rhythm_weight = DefaultRhythmWeight
    /\ phonetic_weight = DefaultPhoneticWeight
    /\ result = NoResult
    /\ candidates = <<>>
    /\ best = NoBest
    /\ pipeline = NoPipeline

-----------------------------------------------------------------------------
(* Specification of the audio engine: LibrosaAnalyzer.analyze on a loaded  *)
(* waveform, then PivotFormatter.format on its AnalysisResult              *)

InitAudio ==
    /\ pc = "loaded"
    /\ audio_signal \in EnvelopePool
    /\ spectral_onsets \in SpectralOutputs
    /\ pyin \in PyinPool
    /\ use_energy_detection \in BOOLEAN
    /\ onset_times = <<>>
    /\ energy_detection = EnergyNotRun
    /\ phonetic_analyzer = NoAnalyzer
    /\ segments = <<>>
    /\ NoValidator
    /\ NoHelpers
    /\ NoLazy

Analyze ==
    /\ pc = "loaded"
    /\ pc' = "analyzed"
    /\ onset_times' = analyze(audio_signal, spectral_onsets, use_energy_detection)
    /\ energy_detection' =
           energy_fallback(audio_signal, spectral_onsets, use_energy_detection)
    /\ UNCHANGED <<segments, validatorVars, audio_signal, spectral_onsets, pyin,
                   use_energy_detection, phonetic_analyzer, helperVars, lazyVars>>

Format ==
    /\ pc = "analyzed"
    /\ pc' = "formatted"
    /\ \E formatted \in FormatOutcomes(onset_times, audio_signal, pyin) :
          /\ phonetic_analyzer' = formatted.analyzer
          /\ segments' = formatted.segments
    /\ UNCHANGED <<validatorVars, audio_signal, spectral_onsets, pyin,
                   use_energy_detection, onset_times, energy_detection,
                   helperVars, lazyVars>>

(* validate_line of a candidate against the grid format built *)
ValidateGrid ==
    /\ pc = "formatted"
    /\ pc' = "grid_validated"
    /\ \E txt \in GridTexts(Len(segments)) :
          /\ text' = txt
          /\ result' = validate_line(txt, segments, rhythm_weight, phonetic_weight)
    /\ UNCHANGED <<segments, rhythm_weight, phonetic_weight, candidates, best, pipeline,
                   audioVars, helperVars, lazyVars>>

NextAudio == Analyze \/ Format \/ ValidateGrid

SpecAudio == InitAudio /\ [][NextAudio]_vars

-----------------------------------------------------------------------------
(* Inputs of the helpers of PivotFormatter *)

(* an envelope with the given level in the marked cells, base elsewhere *)
Levels(base, marks) ==
    [c \in 1..(TrackFrames * (hop_length \div valley_hop_length)) |->
        IF \E mark \in marks : mark[1] = c - 1
        THEN (CHOOSE mark \in marks : mark[1] = c - 1)[2]
        ELSE base]

(* one energy valley in the middle of the first 1.3 s *)
ValleyAtMidpoint == Envelope(8, {}, {}, {56})

(* a peak in the middle of the first 1.3 s, between two flat quiet shoulders *)
PeakAtMidpoint == Levels(4, {<<56, 9>>})

(* the same with a dip in either shoulder *)
PeakBetweenDips == Levels(4, {<<28, 1>>, <<56, 9>>, <<84, 1>>})

(* a loud attack, then a soft passage with a dip to half its level *)
SoftPassageDip == Levels(4, {<<20, 9>>, <<56, 2>>})

(* two valleys 6 frames of 256 samples apart, two valleys 4 frames apart *)
CloseValleys == Envelope(8, {}, {}, {50, 56})

CrowdedValleys == Envelope(8, {}, {}, {50, 54})

(* valleys next to the edges of the first 1.3 s *)
EdgeValleys == Envelope(8, {}, {}, {4, 108})

HelperEnvelopes ==
    {SustainedNote, Phrase, PhraseTwoValleys, ValleyAtMidpoint, PeakAtMidpoint,
     PeakBetweenDips, SoftPassageDip, CloseValleys, CrowdedValleys, EdgeValleys}

Span(time_start, duration) == [time_start |-> time_start, duration |-> duration]

(* onset_times and durations as format passes them on: ascending and       *)
(* contiguous, the last segment with the default duration                  *)
SpanLists ==
    { <<>>,
      <<Span(0, Secs(13, 10))>>,
      <<Span(0, max_segment_duration)>>,
      <<Span(0, max_segment_duration + hop_length)>>,
      <<Span(0, Secs(13, 10)), Span(Secs(13, 10), default_segment_duration)>>,
      <<Span(0, frames_to_time(10, hop_length)),
        Span(frames_to_time(10, hop_length), frames_to_time(46, hop_length)),
        Span(frames_to_time(56, hop_length), default_segment_duration)>> }

(* RMS values of the segments of a grid *)
RmsLevels == {0, 4, 6}

MaxGrid == 6

(* formatters as the engine and the tests build them, and with other       *)
(* stress multipliers                                                      *)
FormatterPool ==
    [stress_threshold : {Rat(12, 10), Rat(1, 1), Rat(2, 1), Rat(8, 10)},
     stress_window_size : {5, 3}]

(* pitches pyin may report for a frame, 0 for an unvoiced frame *)
PitchValues == {0, 100, 120, 150, 300, 400}

PitchFrames == 4

(* f0 tracks: the first PitchFrames frames vary, the rest is unvoiced *)
F0Tracks ==
    {[k \in 1..F0Len |-> IF k <= PitchFrames THEN head[k] ELSE 0] :
        head \in [1..PitchFrames -> PitchValues]}

(* one segment over the first frames, or two segments sharing them *)
PitchSpans ==
    {<<Span(0, frames_to_time(n, hop_length))>> : n \in 0..(PitchFrames + 1)}
    \cup {<<Span(0, frames_to_time(1, hop_length)),
            Span(frames_to_time(1, hop_length), frames_to_time(PitchFrames - 1, hop_length))>>}

IdleAudio ==
    /\ spectral_onsets = <<>>
    /\ use_energy_detection = TRUE
    /\ onset_times = <<>>
    /\ energy_detection = EnergyNotRun
    /\ phonetic_analyzer = NoAnalyzer
    /\ segments = <<>>

-----------------------------------------------------------------------------
(* Specification of the helpers of PivotFormatter, each called on its own  *)
(* arguments: _split_long_segments, _find_energy_valleys, _detect_stress,  *)
(* _detect_pitch                                                           *)

InitSegmentArgs ==
    /\ pc = "segment_args"
    /\ audio_signal \in HelperEnvelopes
    /\ spans \in SpanLists
    /\ pyin = [raised |-> TRUE, f0 |-> <<>>]
    /\ segment_rms = <<>>
    /\ formatter = DefaultFormatter
    /\ returned = <<>>

InitStressArgs ==
    /\ pc = "stress_args"
    /\ audio_signal = <<>>
    /\ spans = <<>>
    /\ pyin = [raised |-> TRUE, f0 |-> <<>>]
    /\ segment_rms \in SeqsUpTo(RmsLevels, MaxGrid)
    /\ formatter \in FormatterPool
    /\ returned = <<>>

InitPitchArgs ==
    /\ pc = "pitch_args"
    /\ audio_signal \in {<<>>, SustainedNote}
    /\ spans \in PitchSpans
    /\ pyin \in {[raised |-> TRUE, f0 |-> <<>>]}
                 \cup {[raised |-> FALSE, f0 |-> f0] : f0 \in F0Tracks}
    /\ segment_rms = <<>>
    /\ formatter = DefaultFormatter
    /\ returned = <<>>

InitHelpers ==
    /\ InitSegmentArgs \/ InitStressArgs \/ InitPitchArgs
    /\ IdleAudio
    /\ NoValidator
    /\ NoLazy

SplitLongSegments ==
    /\ pc = "segment_args"
    /\ pc' = "split"
    /\ returned' = _split_long_segments(spans, audio_signal)
    /\ UNCHANGED <<segments, validatorVars, audioVars, spans, segment_rms, formatter,
                   lazyVars>>

(* _find_energy_valleys on one of the segments *)
FindEnergyValleys ==
    /\ pc = "segment_args"
    /\ pc' = "valleys"
    /\ \E k \in DOMAIN spans :
          returned' =
              [segment |-> k,
               valleys |-> _find_energy_valleys(audio_signal, spans[k].time_start,
                               spans[k].time_start + spans[k].duration)]
    /\ UNCHANGED <<segments, validatorVars, audioVars, spans, segment_rms, formatter,
                   lazyVars>>

DetectStress ==
    /\ pc = "stress_args"
    /\ pc' = "stress"
    /\ returned' = _detect_stress_of(formatter, segment_rms)
    /\ UNCHANGED <<segments, validatorVars, audioVars, spans, segment_rms, formatter,
                   lazyVars>>

DetectPitch ==
    /\ pc = "pitch_args"
    /\ pc' = "pitch"
    /\ returned' = _detect_pitch(audio_signal, pyin, spans)
    /\ UNCHANGED <<segments, validatorVars, audioVars, spans, segment_rms, formatter,
                   lazyVars>>

NextHelpers == SplitLongSegments \/ FindEnergyValleys \/ DetectStress \/ DetectPitch

-----------------------------------------------------------------------------
(* PhoneticAnalyzer: construction, backend resolution and analysis calls *)

(* configurations: PHONETIC_MODEL, PHONETIC_ENABLED,                       *)
(* PHONETIC_FALLBACK_ENABLED and WHISPER_USE_FULL_AUDIO from the            *)
(* environment                                                             *)
ConfigPool ==
    [PHONETIC_ENABLED : BOOLEAN, PHONETIC_FALLBACK_ENABLED : BOOLEAN,
     PHONETIC_MODEL : {"whisper", "allosaurus"}, WHISPER_USE_FULL_AUDIO : BOOLEAN]

(* what loading each backend does on this machine *)
LoadOutcomes ==
    [whisper : {"available", "unavailable", "raises"},
     allosaurus : {"ok", "import_error", "raises"}]

(* an IPA string a backend recognises *)
RecognisedIpa == <<"b", " ", "a">>

(* segments handed to the analysis calls: recognised, not recognised, too  *)
(* short, empty with a non-empty padded range, and empty                   *)
LazySegments ==
    {[samples |-> 1, padded |-> 1, long_enough |-> TRUE, recognised |-> RecognisedIpa,
      sound_type |-> TagVowel],
     [samples |-> 1, padded |-> 1, long_enough |-> TRUE, recognised |-> <<>>,
      sound_type |-> TagConsonant],
     [samples |-> 1, padded |-> 1, long_enough |-> FALSE, recognised |-> RecognisedIpa,
      sound_type |-> TagVowel],
     [samples |-> 0, padded |-> 1, long_enough |-> FALSE, recognised |-> <<>>,
      sound_type |-> TagMid],
     [samples |-> 0, padded |-> 0, long_enough |-> FALSE, recognised |-> <<>>,
      sound_type |-> TagMid]}

MaxLazySegments == 2

InitLazy ==
    /\ pc = "constructed"
    /\ \E enabled_arg \in {"none", "true", "false"}, cfg \in ConfigPool :
          analyzer_state = PhoneticAnalyzer(enabled_arg, cfg)
    /\ backend_loads \in LoadOutcomes
    /\ load_calls = NoLoads
    /\ IdleAudio
    /\ NoValidator
    /\ audio_signal = <<>>
    /\ pyin = [raised |-> TRUE, f0 |-> <<>>]
    /\ spans = <<>>
    /\ segment_rms = <<>>
    /\ formatter = DefaultFormatter
    /\ returned = <<>>

LazyPc == {"constructed", "_lazy_init", "analyze_segment", "analyze_segments"}

(* a direct call of _lazy_init *)
LazyInit ==
    /\ pc \in LazyPc
    /\ pc' = "_lazy_init"
    /\ LET done == _lazy_init(analyzer_state, backend_loads, load_calls)
       IN  /\ analyzer_state' = done.self
           /\ load_calls' = done.calls
    /\ UNCHANGED <<segments, validatorVars, audioVars, helperVars, backend_loads>>

AnalyzeSegment ==
    /\ pc \in LazyPc
    /\ pc' = "analyze_segment"
    /\ \E seg \in LazySegments, use_fallback \in BOOLEAN :
          LET done == _lazy_init(analyzer_state, backend_loads, load_calls)
          IN  /\ analyzer_state' = done.self
              /\ load_calls' = done.calls
              /\ returned' = <<analyze_segment(done.self, seg, use_fallback)>>
    /\ UNCHANGED <<segments, validatorVars, audioVars, spans, segment_rms, formatter,
                   backend_loads>>

AnalyzeSegments ==
    /\ pc \in LazyPc
    /\ pc' = "analyze_segments"
    /\ \E segs \in SeqsUpTo(LazySegments, MaxLazySegments) :
          LET done == _lazy_init(analyzer_state, backend_loads, load_calls)
          IN  /\ analyzer_state' = done.self
              /\ load_calls' = done.calls
              /\ returned' = analyze_segments_of(done.self, segs)
    /\ UNCHANGED <<segments, validatorVars, audioVars, spans, segment_rms, formatter,
                   backend_loads>>

NextLazy == LazyInit \/ AnalyzeSegment \/ AnalyzeSegments

SpecLazy == InitLazy /\ [][NextLazy]_vars

SpecHelpers == InitHelpers /\ [][NextHelpers]_vars

-----------------------------------------------------------------------------
(* Properties of the validator *)

(* number of tokens of a phoneme list that carry a stress digit *)
SyllablesOf(txt) ==
    Cardinality({i \in DOMAIN txt : \E j \in DOMAIN txt[i] : txt[i][j] \in {"0", "1", "2"}})

Validated == pc = "validated"

PassedGate == Validated /\ SyllablesOf(text) = Len(segments)

StressedSegs == {i \in DOMAIN segments : segments[i].is_stressed}

UnstressedSegs == {i \in DOMAIN segments : ~segments[i].is_stressed}

DefaultWeights ==
    rhythm_weight = DefaultRhythmWeight /\ phonetic_weight = DefaultPhoneticWeight

InUnit(x) == RLeq(Zero, x) /\ RLeq(x, One)

(* C1: validate_line(C, G).is_valid holds exactly when the number of       *)
(* stress-digit-bearing phonemes of C equals len(G); when the counts       *)
(* differ the result is invalid with score, groove_score and               *)
(* phonetic_score all 0.0.                                                 *)
C1_SyllableCountGate ==
    Validated =>
        /\ result.is_valid <=> (SyllablesOf(text) = Len(segments))
        /\ SyllablesOf(text) # Len(segments) =>
              /\ result.is_valid = FALSE
              /\ result.score = Zero
              /\ result.groove_score = Zero
              /\ result.phonetic_score = Zero

C1_Witness ==
    /\ Validated
    /\ SyllablesOf(text) # Len(segments)
    /\ SyllablesOf(text) > 0
    /\ Len(text) = Len(segments)
    /\ \E i \in DOMAIN segments : segments[i].audio_phonemes = <<"m", " ", "A">>
    /\ ~result.is_valid

(* results of the batch, validated one by one with the default weights *)
BatchResults ==
    [i \in DOMAIN candidates |->
        validate_line(candidates[i], segments, DefaultRhythmWeight, DefaultPhoneticWeight)]

ValidInBatch == {i \in DOMAIN candidates : BatchResults[i].is_valid}

C3_GrooveFormula ==
    (PassedGate /\ Len(segments) > 0) =>
        LET S == result.stress_markers
            halves == 4 * Cardinality({i \in StressedSegs : S[i] = 1})
                      + Cardinality({i \in StressedSegs : S[i] = 2})
                      + 2 * Cardinality({i \in UnstressedSegs : S[i] = 0})
            maximum == 2 * Cardinality(StressedSegs) + Cardinality(UnstressedSegs)
        IN  result.groove_score[1] * 2 * maximum = halves * result.groove_score[2]

C3_Witness ==
    /\ PassedGate
    /\ Len(segments) = 2
    /\ StressedSegs = {1}
    /\ result.stress_markers = <<2, 0>>
    /\ result.groove_score = Rat(1, 2)

ExactMatch ==
    /\ \A i \in StressedSegs : result.stress_markers[i] = 1
    /\ \A i \in UnstressedSegs : result.stress_markers[i] = 0

(* C4 as stated: for every equal-length profile and segment list the       *)
(* groove score is within [0, 1], and a profile that exactly matches the   *)
(* stress flags scores exactly 1.0 (the empty grid included).              *)
C4_Original ==
    PassedGate =>
        /\ InUnit(result.groove_score)
        /\ ExactMatch => result.groove_score = One

(* C4 (amended): the groove score is within [0, 1] for every equal-length  *)
(* profile and segment list, and a profile that exactly matches the stress *)
(* flags of a non-empty segment list scores exactly 1.0; the empty profile *)
(* against the empty list scores 0.0.                                      *)
C4_GrooveBounds ==
    PassedGate =>
        /\ InUnit(result.groove_score)
        /\ (ExactMatch /\ Len(segments) > 0) => result.groove_score = One
        /\ Len(segments) = 0 => result.groove_score = Zero

C4_Witness ==
    /\ PassedGate
    /\ Len(segments) = 2
    /\ StressedSegs = {2}
    /\ ExactMatch
    /\ result.groove_score = One

Weighted == RAdd(RMul(result.groove_score, DefaultRhythmWeight),
                 RMul(result.phonetic_score, DefaultPhoneticWeight))

(* C5 as stated: past the count gate and with the default weights, score   *)
(* is 0.6 x groove + 0.4 x phonetic when at least one segment carries      *)
(* non-empty audio_phonemes, and groove alone with phonetic_score 0.0 when *)
(* every segment's audio_phonemes is empty.                                *)
C5_Original ==
    (PassedGate /\ DefaultWeights) =>
        /\ (\E i \in DOMAIN segments : segments[i].audio_phonemes # <<>>)
              => result.score = Weighted
        /\ (\A i \in DOMAIN segments : segments[i].audio_phonemes = <<>>)
              => (result.score = result.groove_score /\ result.phonetic_score = Zero)

Blank(s) == \A j \in DOMAIN s : s[j] = " "

(* C5 (amended): past the count gate and with the default weights, score   *)
(* is 0.6 x groove + 0.4 x phonetic when at least one segment's            *)
(* audio_phonemes holds a non-whitespace character, and groove alone with  *)
(* phonetic_score 0.0 when every segment's audio_phonemes is empty or      *)
(* whitespace only.                                                        *)
C5_CombinedScore ==
    (PassedGate /\ DefaultWeights) =>
        /\ (\E i \in DOMAIN segments : ~Blank(segments[i].audio_phonemes))
              => result.score = Weighted
        /\ (\A i \in DOMAIN segments : Blank(segments[i].audio_phonemes))
              => (result.score = result.groove_score /\ result.phonetic_score = Zero)

C5_Witness ==
    /\ PassedGate
    /\ DefaultWeights
    /\ Len(segments) = 2
    /\ segments[1].audio_phonemes = <<" ">>
    /\ segments[2].audio_phonemes = <<"m", " ", "A">>
    /\ RLt(Zero, result.phonetic_score)
    /\ RLt(result.phonetic_score, result.groove_score)
    /\ result.score = Weighted

(* C6: every ValidationResult of validate_line has score, groove_score and *)
(* phonetic_score within [0.0, 1.0], whatever weights the caller passes.   *)
C6_ScoresInUnitInterval ==
    Validated =>
        /\ InUnit(result.score)
        /\ InUnit(result.groove_score)
        /\ InUnit(result.phonetic_score)

(* C7: a text with zero syllables is a zero-syllable candidate: against an *)
(* empty segment list it is valid with score 0.0, against a non-empty one  *)
(* it is invalid with score 0.0.                                           *)
C7_EmptyInput ==
    (Validated /\ SyllablesOf(text) = 0) =>
        /\ segments = <<>> => (result.is_valid /\ result.score = Zero)
        /\ segments # <<>> => (~result.is_valid /\ result.score = Zero)

C7_Witness ==
    /\ Validated
    /\ text = <<>>
    /\ segments = <<>>
    /\ result.is_valid
    /\ result.score = Zero

(* the space-separated symbols of an IPA string *)
RECURSIVE SplitSymbols(_, _)
SplitSymbols(str, current) ==
    IF str = <<>> THEN (IF current = <<>> THEN <<>> ELSE <<current>>)
    ELSE IF Head(str) = " "
    THEN (IF current = <<>> THEN <<>> ELSE <<current>>) \o SplitSymbols(Tail(str), <<>>)
    ELSE SplitSymbols(Tail(str), Append(current, Head(str)))

(* twice the points of one position: 1 for the same symbol, 0.5 for two    *)
(* symbols of one broad class, 0 otherwise                                 *)
SymbolPoints2(a, b) ==
    IF a = b THEN 2
    ELSE IF \E cls \in PHONETIC_CLASSES : a \in cls /\ b \in cls THEN 1
    ELSE 0

(* position-by-position score of two symbol sequences, each phoneme one symbol *)
SymbolScore(text_symbols, audio_symbols) ==
    LET total == Max2(Len(text_symbols), Len(audio_symbols))
        points2 == SumSeq([i \in DOMAIN text_symbols |->
                              IF i <= Len(audio_symbols)
                              THEN SymbolPoints2(text_symbols[i], audio_symbols[i])
                              ELSE 0])
    IN  Rat(points2, 2 * total)

CombinedAudio ==
    JoinSpace(FilterNonEmpty([i \in DOMAIN segments |-> segments[i].audio_phonemes]))

(* C16: calculate_phonetic_match compares the candidate's IPA symbol       *)
(* sequence with the observed one position by position (1 for an identical *)
(* symbol, 0.5 for two symbols of the same broad class, 0 otherwise) and   *)
(* divides by the length of the longer sequence, every phoneme, diphthongs *)
(* and affricates included, counting as one symbol.                        *)
C16_SymbolwiseMatch ==
    (PassedGate /\ HasPhoneticData(CombinedAudio) /\ IpaParts(text) # <<>>) =>
        result.phonetic_score =
            SymbolScore(IpaParts(text), SplitSymbols(CombinedAudio, <<>>))

(* a pipeline entry ran all four stages and returned *)
PipelineCompleted ==
    pc = "pipeline_done" /\ pipeline.stages = Stages /\ pipeline.failed = "none"

(* C14: the selection inside run_pipeline and run_full_pipeline picks the  *)
(* same winner as get_best_candidate for every batch and every grid: the   *)
(* first highest-scoring valid candidate, and no winner only when no       *)
(* candidate is valid.                                                     *)
C14_PipelineMatchesSelector ==
    PipelineCompleted =>
        pipeline.best_line = get_best_candidate(candidates, segments, DefaultMinScore)

(* C18: run_pipeline returns (None, 0.0) without raising when the audio    *)
(* file is missing and when any of its stages (audio analysis, prompt      *)
(* construction, candidate generation, validation) fails, and after a      *)
(* failed stage no later stage is executed.                                *)
C18_GracefulFailure ==
    (/\ pc = "pipeline_done"
     /\ pipeline.entry = "run_pipeline"
     /\ (pipeline.stages # Stages \/ pipeline.failed # "none")) =>
        /\ ~pipeline.raised
        /\ ~pipeline.best_line.found
        /\ pipeline.best_score = Zero
        /\ (pipeline.failed # "none" => pipeline.stages = StagesRun(pipeline.failed))

-----------------------------------------------------------------------------
(* Properties of the audio engine *)

Formatted == pc = "formatted"

Analyzed == pc \in {"analyzed", "formatted"}

GridValidated == pc = "grid_validated"

(* the energy fallback ran and the two lists were merged *)
FallbackRan == RunsEnergyFallback(use_energy_detection, spectral_onsets)

StartTimes == {segments[i].time_start : i \in DOMAIN segments}

OnsetSet == {onset_times[i] : i \in DOMAIN onset_times}

(* C8: the segments of the grid PivotFormatter.format returns are in       *)
(* ascending time_start order and do not overlap:                          *)
(* segments[i].time_start + segments[i].duration <=                        *)
(* segments[i+1].time_start for every i.                                   *)
C8_OrderedNonOverlapping ==
    Formatted =>
        \A i \in 1..(Len(segments) - 1) :
            /\ segments[i].time_start <= segments[i + 1].time_start
            /\ segments[i].time_start + segments[i].duration
                  <= segments[i + 1].time_start

(* a long segment was split at two valleys and a breath was filtered out *)
C8_Witness ==
    /\ Formatted
    /\ Len(segments) >= 4
    /\ Cardinality(StartTimes \ OnsetSet) = 2
    /\ OnsetSet \ StartTimes # {}
    /\ \A i \in 1..(Len(segments) - 1) :
          segments[i].time_start + segments[i].duration <= segments[i + 1].time_start

(* C9: every segment of a grid produced by PivotFormatter.format has       *)
(* duration > 0, on the fallback path and on the primary-only path of      *)
(* LibrosaAnalyzer.analyze.                                                *)
C9_PositiveDurations ==
    Formatted => \A i \in DOMAIN segments : segments[i].duration > 0

(* C10: the onset list LibrosaAnalyzer.analyze returns is sorted ascending *)
(* and deduplicated, no two onsets within 50 ms of each other, whether the *)
(* energy fallback ran or the primary detector's list is returned.         *)
C10_SortedDeduplicated ==
    Analyzed =>
        \A i \in 1..(Len(onset_times) - 1) :
            onset_times[i + 1] - onset_times[i] >= Secs(5, 100)

(* time_start and duration of the segments of the grid *)
Spans(segs) ==
    [i \in DOMAIN segs |-> [time_start |-> segs[i].time_start, duration |-> segs[i].duration]]

(* the segment list format hands to the breath filter *)
BeforeFilter ==
    _split_long_segments(
        [i \in DOMAIN onset_times |->
            [time_start |-> onset_times[i],
             duration |-> FirstPassDurations(onset_times)[i]]],
        audio_signal)

(* C11: silent or unanalyzable audio is not an error: with no onsets from  *)
(* either detector _merge_onsets returns the empty list, and format on an  *)
(* empty onset list returns a grid whose single block has zero segments    *)
(* and syllable_target = 0.                                                *)
C11_EmptyGrid ==
    /\ (Analyzed /\ FallbackRan /\ spectral_onsets = <<>>
            /\ _detect_onsets_energy(audio_signal) = <<>>) => onset_times = <<>>
    /\ (Formatted /\ onset_times = <<>>) =>
            /\ Block(segments).segments = <<>>
            /\ Block(segments).syllable_target = 0

(* a silent track: both detectors empty, the fallback merged them *)
C11_Witness ==
    /\ Formatted
    /\ audio_signal = Silence
    /\ FallbackRan
    /\ spectral_onsets = <<>>
    /\ onset_times = <<>>
    /\ segments = <<>>

IsShort(seg) == seg.duration < Secs(15, 100)

FirstSample(seg) == Max2(0, ToSample(seg.time_start))

EndSample(seg) == Min2(NumSamples(audio_signal), ToSample(seg.time_start + seg.duration))

TrackPeak == GlobalMaxRms(audio_signal)

(* segment RMS < 0.15 x track peak RMS, the RMS of an empty range being 0 *)
BelowPeakFraction(seg) ==
    IF EndSample(seg) <= FirstSample(seg) THEN 0 < TrackPeak
    ELSE 400 * SumSquares(audio_signal, FirstSample(seg), EndSample(seg))
            < 9 * TrackPeak * TrackPeak * (EndSample(seg) - FirstSample(seg))

(* segment RMS < 0.15 x (track peak RMS + 1e-10) over a non-empty range *)
BelowThreshold(seg) ==
    /\ EndSample(seg) > FirstSample(seg)
    /\ 400 * SumSquares(audio_signal, FirstSample(seg), EndSample(seg))
            <= 9 * TrackPeak * TrackPeak * (EndSample(seg) - FirstSample(seg))

KeptOriginal(seg) == ~(IsShort(seg) /\ BelowPeakFraction(seg))

KeptAmended(seg) == ~(IsShort(seg) /\ BelowThreshold(seg))

C13_FilterIdempotent ==
    Formatted =>
        _filter_low_energy_segments(Spans(segments), audio_signal) = Spans(segments)

(* the first pass dropped two neighbouring segments and kept others *)
C13_Witness ==
    /\ Formatted
    /\ Len(BeforeFilter) >= Len(segments) + 2
    /\ segments # <<>>
    /\ _filter_low_energy_segments(Spans(segments), audio_signal) = Spans(segments)

(* the recogniser of the formatter's analyzer yielded no phonemes for any  *)
(* segment: no analyzer, analyzer disabled or without backend, or a        *)
(* backend that recognised nothing                                         *)
NoRecognizerOutput ==
    \/ ~phonetic_analyzer.present
    \/ ~phonetic_analyzer.enabled
    \/ phonetic_analyzer.backend = "none"
    \/ /\ phonetic_analyzer.backend = "whisper_full"
       /\ \A i \in DOMAIN segments :
             analyze_segments_full_audio(phonetic_analyzer.words, Spans(segments))[i] = <<>>
    \/ /\ phonetic_analyzer.backend = "segment"
       /\ phonetic_analyzer.recognised = <<>>

(* C15: when the phonetic recogniser yields no phonemes for any segment    *)
(* of a track, every valid candidate validated against the grid built by   *)
(* format gets phonetic_score = 0.0 and score = groove_score.              *)
C15_NoPhoneticPenalty ==
    (GridValidated /\ NoRecognizerOutput /\ result.is_valid) =>
        /\ result.phonetic_score = Zero
        /\ result.score = result.groove_score

(* the syllables of the transcription, in the order of the words *)
TranscribedSyllables == _words_to_syllables_with_timing(phonetic_analyzer.words)

(* position of syllable k in start-time order, equal starts in word order *)
StartRank(syllables, k) ==
    Cardinality({j \in DOMAIN syllables :
                    \/ syllables[j].start < syllables[k].start
                    \/ syllables[j].start = syllables[k].start /\ j <= k})

(* C17: _align_words_to_segments returns exactly one string per segment by *)
(* strict positional mapping: entry i is the phonemes of the i-th syllable *)
(* in start-time order for i <= min(number of syllables, number of         *)
(* segments), surplus syllables are dropped, surplus segments get the      *)
(* empty string, and with no words, no syllables or no segments every      *)
(* entry is empty.                                                         *)
C17_PositionalAlignment ==
    Formatted =>
        LET aligned == _align_words_to_segments(phonetic_analyzer.words, Spans(segments))
        IN  /\ Len(aligned) = Len(segments)
            /\ \A i \in DOMAIN segments :
                  aligned[i] =
                      IF i <= Len(TranscribedSyllables)
                      THEN TranscribedSyllables[
                               CHOOSE k \in DOMAIN TranscribedSyllables :
                                   StartRank(TranscribedSyllables, k) = i].phonemes
                      ELSE <<>>

(* two overlapping words, three syllables, more segments than syllables:   *)
(* the grid carries the syllables in start-time order, then empty strings  *)
C17_Witness ==
    /\ Formatted
    /\ phonetic_analyzer.backend = "whisper_full"
    /\ ~phonetic_analyzer.fallback_enabled
    /\ phonetic_analyzer.words = <<WordA, WordB>>
    /\ Len(segments) >= 4
    /\ segments[1].audio_phonemes = SylMAA
    /\ segments[2].audio_phonemes = SylTUW
    /\ segments[3].audio_phonemes = SylNIY
    /\ segments[4].audio_phonemes = <<>>

(* the onsets of both detectors, as a set *)
AllOnsets ==
    {spectral_onsets[i] : i \in DOMAIN spectral_onsets}
        \cup LET energy == _detect_onsets_energy(audio_signal)
             IN  {energy[i] : i \in DOMAIN energy}

(* C19: _merge_onsets returns the concatenation of both lists sorted       *)
(* ascending with every onset removed that lies less than 50 ms after the  *)
(* most recently kept onset: the earliest onset is always kept,            *)
(* consecutive returned onsets are at least 50 ms apart, and every removed *)
(* onset lies within 50 ms after a kept onset.                             *)
C19_MergeOnsets ==
    (Analyzed /\ FallbackRan) =>
        /\ OnsetSet \subseteq AllOnsets
        /\ AllOnsets # {} =>
              /\ onset_times # <<>>
              /\ \A x \in AllOnsets : onset_times[1] <= x
        /\ \A i \in 1..(Len(onset_times) - 1) :
              /\ onset_times[i + 1] - onset_times[i] >= Secs(5, 100)
              \* the next kept onset is the first one 50 ms or more after this one
              /\ \A x \in AllOnsets :
                    x - onset_times[i] >= Secs(5, 100) => onset_times[i + 1] <= x
        /\ \A x \in AllOnsets \ OnsetSet :
              \E i \in DOMAIN onset_times :
                  /\ 0 <= x - onset_times[i]
                  /\ x - onset_times[i] < Secs(5, 100)
                  /\ (i < Len(onset_times) => x < onset_times[i + 1])

(* both detectors fired; an onset within 50 ms of a removed one was kept   *)
(* because it lies 50 ms or more after the last kept onset                 *)
C19_Witness ==
    /\ Analyzed
    /\ FallbackRan
    /\ spectral_onsets # <<>>
    /\ _detect_onsets_energy(audio_signal) # <<>>
    /\ \E x \in AllOnsets \ OnsetSet :
          \E i \in DOMAIN onset_times :
              /\ 0 < onset_times[i] - x
              /\ onset_times[i] - x < Secs(5, 100)
    /\ \A i \in 1..(Len(onset_times) - 1) :
          onset_times[i + 1] - onset_times[i] >= Secs(5, 100)

-----------------------------------------------------------------------------
(* Properties of the helpers of PivotFormatter *)

SplitDone == pc = "split"

(* the valleys _find_energy_valleys reports inside segment k of spans *)
ValleysOf(k) ==
    _find_energy_valleys(audio_signal, spans[k].time_start,
                         spans[k].time_start + spans[k].duration)

(* the number of segments that replace segment k *)
PieceCount(k) ==
    IF spans[k].duration <= max_segment_duration THEN 1 ELSE 1 + Len(ValleysOf(k))

(* index in the output of the first segment that replaces segment k *)
FirstPiece(k) == 1 + SumSeq([j \in 1..(k - 1) |-> PieceCount(j)])

Pieces(k) == SubSeq(returned, FirstPiece(k), FirstPiece(k) + PieceCount(k) - 1)

(* C21: _split_long_segments leaves every segment with duration <=         *)
(* max_segment_duration unchanged, keeps a longer segment whole when no    *)
(* valley is found, and otherwise replaces it by contiguous sub-segments   *)
(* that start at the original onset, are cut at each valley and end at the *)
(* original end: each sub-duration is > 0, the sub-durations sum to the    *)
(* original duration, and the output order stays ascending.                *)
C21_SplitLongSegments ==
    SplitDone =>
        /\ Len(returned) = SumSeq([k \in DOMAIN spans |-> PieceCount(k)])
        /\ \A k \in DOMAIN spans :
              LET pieces == Pieces(k)
                  n == Len(pieces)
              IN  IF spans[k].duration <= max_segment_duration \/ ValleysOf(k) = <<>>
                  THEN pieces = <<spans[k]>>
                  ELSE /\ pieces[1].time_start = spans[k].time_start
                       /\ \A j \in 2..n : pieces[j].time_start = ValleysOf(k)[j - 1]
                       /\ \A j \in 1..(n - 1) :
                             pieces[j].time_start + pieces[j].duration
                                = pieces[j + 1].time_start
                       /\ pieces[n].time_start + pieces[n].duration
                             = spans[k].time_start + spans[k].duration
                       /\ \A j \in 1..n : pieces[j].duration > 0
                       /\ SumSeq([j \in 1..n |-> pieces[j].duration]) = spans[k].duration
        /\ \A i \in 1..(Len(returned) - 1) :
              returned[i].time_start <= returned[i + 1].time_start

(* of three segments the long one in the middle was cut at two valleys *)
C21_Witness ==
    /\ SplitDone
    /\ Len(spans) = 3
    /\ spans[2].duration > max_segment_duration
    /\ Len(ValleysOf(2)) = 2
    /\ Len(returned) = 5
    /\ returned[1] = spans[1]
    /\ returned[3].time_start = ValleysOf(2)[1]
    /\ returned[5] = spans[3]

ValleysDone == pc = "valleys"

(* the segment _find_energy_valleys was called on *)
Probed == spans[returned.segment]

(* the fine RMS envelope of the probed segment, frame i (0-based) at i + 1 *)
ProbedRms ==
    FrameRms(audio_signal, Max2(0, ToSample(Probed.time_start)),
             Min2(NumSamples(audio_signal), ToSample(Probed.time_start + Probed.duration)),
             valley_hop_length)

FrameTime(i) == Probed.time_start + frames_to_time(i, valley_hop_length)

(* frames i (0-based) with both neighbours strictly higher, the 3 frames   *)
(* at either end of the envelope excluded                                  *)
LocalMinima ==
    {i \in 3..(Len(ProbedRms) - 4) :
        ProbedRms[i + 1] < ProbedRms[i] /\ ProbedRms[i + 1] < ProbedRms[i + 2]}

(* more than 50 ms from both edges of the segment *)
InsideMargins(i) ==
    /\ FrameTime(i) > Probed.time_start + Secs(5, 100)
    /\ FrameTime(i) < Probed.time_start + Probed.duration - Secs(5, 100)

(* the local peaks: the highest of the 3 frames on either side *)
LeftPeak(i) == MaxSeq(SubSeq(ProbedRms, i - 2, i))

RightPeak(i) == MaxSeq(SubSeq(ProbedRms, i + 2, i + 4))

(* (a) at least 30% below the average of the left and right local peaks *)
BelowLocalPeaks(i) == 20 * ProbedRms[i + 1] <= 7 * (LeftPeak(i) + RightPeak(i))

(* (b) below 50% of the segment's own peak *)
BelowHalfPeak(i) == 2 * ProbedRms[i + 1] < MaxSeq(ProbedRms)

ReturnedFrames == {i \in 0..(Len(ProbedRms) - 1) :
                      \E v \in DOMAIN returned.valleys : returned.valleys[v] = FrameTime(i)}

(* the spacing rule: frame i comes less than the minimum spacing of        *)
(* int(0.08 * sr / 256) frames after a returned valley                     *)
SpacedOut(i) ==
    \E j \in ReturnedFrames :
        j < i /\ i - j < Secs(8, 100) \div frames_to_time(1, valley_hop_length)

(* C22: _find_energy_valleys accepts a local minimum of the segment's RMS  *)
(* envelope as a valley exactly when it is (a) at least 30% below the      *)
(* average of its immediate left and right local peaks and (b) below 50%   *)
(* of the segment's own peak amplitude (edge-margin and spacing rules      *)
(* aside).                                                                 *)
C22_ValleyCriteria ==
    ValleysDone =>
        /\ Len(returned.valleys) = Cardinality(ReturnedFrames)
        /\ ReturnedFrames \subseteq
              {i \in LocalMinima : BelowLocalPeaks(i) /\ BelowHalfPeak(i)}
        /\ \A i \in LocalMinima :
              (BelowLocalPeaks(i) /\ BelowHalfPeak(i) /\ InsideMargins(i)
                    /\ ~SpacedOut(i))
                 => i \in ReturnedFrames

(* C23: every valley returned by _find_energy_valleys lies more than 50 ms *)
(* from both edges of the segment, and any two returned valleys are at     *)
(* least 80 ms apart (default min_valley_spacing, hop of 256 samples,      *)
(* 22050 Hz sample rate).                                                  *)
C23_ValleyMarginSpacing ==
    ValleysDone =>
        /\ \A v \in DOMAIN returned.valleys :
              /\ returned.valleys[v] - Probed.time_start > Secs(5, 100)
              /\ (Probed.time_start + Probed.duration) - returned.valleys[v]
                    > Secs(5, 100)
        /\ \A v, w \in DOMAIN returned.valleys :
              v < w => returned.valleys[w] - returned.valleys[v] >= Secs(8, 100)

(* _split_long_segments was called on one segment of 1.3 s *)
SplitOneLong == SplitDone /\ Len(spans) = 1 /\ spans[1].duration = Secs(13, 10)

(* the fine RMS envelope of that segment, frame i (0-based) at i + 1 *)
LongRms ==
    FrameRms(audio_signal, Max2(0, ToSample(spans[1].time_start)),
             Min2(NumSamples(audio_signal),
                  ToSample(spans[1].time_start + spans[1].duration)),
             valley_hop_length)

(* the frame at the midpoint of the segment (0-based) *)
MidFrame == Len(LongRms) \div 2

Symmetric ==
    \A d \in 1..(MidFrame - 1) : LongRms[MidFrame + 1 - d] = LongRms[MidFrame + 1 + d]

FlatRms == \A i \in DOMAIN LongRms : LongRms[i] = LongRms[1]

(* the peak at the midpoint, every other frame at least 30% below it *)
PeakWithLowShoulders ==
    /\ Symmetric
    /\ LongRms[MidFrame + 1] = MaxSeq(LongRms)
    /\ \A i \in DOMAIN LongRms :
          i # MidFrame + 1 => 10 * LongRms[i] <= 7 * LongRms[MidFrame + 1]

(* the only local minimum at the midpoint: more than 30% of the segment's  *)
(* peak below the average of the highest frames within 3 frames on either  *)
(* side, and below 50% of the segment's peak                               *)
ValleyWithHighShoulders ==
    /\ Symmetric
    /\ {i \in 1..(Len(LongRms) - 2) :
           LongRms[i + 1] < LongRms[i] /\ LongRms[i + 1] < LongRms[i + 2]} = {MidFrame}
    /\ 10 * (MaxSeq(SubSeq(LongRms, MidFrame - 2, MidFrame))
                + MaxSeq(SubSeq(LongRms, MidFrame + 2, MidFrame + 4))
                - 2 * LongRms[MidFrame + 1])
          > 6 * MaxSeq(LongRms)
    /\ 2 * LongRms[MidFrame + 1] < MaxSeq(LongRms)

(* C24 as stated: a 1.3 s segment whose RMS envelope has its peak at the   *)
(* midpoint and two symmetric low-energy shoulders at least 30% below the  *)
(* peak is split into exactly 2 sub-segments, while a 1.3 s segment with a *)
(* perfectly flat RMS envelope remains one segment.                        *)
C24_Original ==
    SplitOneLong =>
        /\ PeakWithLowShoulders => Len(returned) = 2
        /\ FlatRms => returned = spans

(* C24: a 1.3 s segment whose RMS envelope has its only local minimum at   *)
(* the midpoint, between two symmetric higher shoulders, the minimum more  *)
(* than 30% of the segment's peak below the local peaks on its two sides   *)
(* and below 50% of the segment's peak, is split by _split_long_segments   *)
(* into exactly 2 sub-segments at the valley, while a 1.3 s segment with a *)
(* perfectly flat RMS envelope remains one segment.                        *)
C24_SplitAtMidpointValley ==
    SplitOneLong =>
        /\ ValleyWithHighShoulders =>
              /\ Len(returned) = 2
              /\ returned[1].time_start = spans[1].time_start
              /\ returned[2].time_start
                    = spans[1].time_start + frames_to_time(MidFrame, valley_hop_length)
              /\ returned[1].duration + returned[2].duration = spans[1].duration
        /\ FlatRms => returned = spans

(* the segment with the valley at its midpoint was cut in two there *)
C24_Witness ==
    /\ SplitOneLong
    /\ ValleyWithHighShoulders
    /\ Len(returned) = 2
    /\ returned[2].time_start - returned[1].time_start = returned[1].duration
    /\ Abs(returned[1].duration - returned[2].duration)
          <= frames_to_time(1, valley_hop_length)

StressDone == pc = "stress"

(* h = stress_window_size // 2 *)
HalfWidth == formatter.stress_window_size \div 2

(* the neighbours of segment i within h positions, i included *)
Window(i) == {j \in DOMAIN segment_rms : Abs(j - i) <= HalfWidth}

RECURSIVE SumOver(_)
SumOver(js) ==
    IF js = {} THEN 0
    ELSE LET j == CHOOSE k \in js : TRUE IN segment_rms[j] + SumOver(js \ {j})

(* rms[i] > stress_threshold x mean of the window *)
AboveLocalMean(i) ==
    segment_rms[i] * formatter.stress_threshold[2] * Cardinality(Window(i))
        > formatter.stress_threshold[1] * SumOver(Window(i))

(* C26: _detect_stress returns one flag per segment and marks segment i    *)
(* stressed exactly when rms[i] > stress_threshold x mean(rms[max(0, i-h)  *)
(* .. min(n-1, i+h)]) with h = stress_window_size // 2 (default 1.2 and    *)
(* h = 2, window clamped at the grid boundaries); a segment whose window   *)
(* mean is 0 is marked not stressed and no division error occurs.          *)
C26_StressRule ==
    StressDone =>
        /\ DOMAIN returned = DOMAIN segment_rms
        /\ \A i \in DOMAIN segment_rms :
              /\ returned[i] \in BOOLEAN
              /\ returned[i] <=> AboveLocalMean(i)
              /\ SumOver(Window(i)) = 0 => ~returned[i]

(* the default formatter on a grid with a silent stretch and a loud end:   *)
(* full and clamped windows, a window of mean 0, stressed and unstressed   *)
C26_Witness ==
    /\ StressDone
    /\ formatter = DefaultFormatter
    /\ Len(segment_rms) >= 6
    /\ \E i \in DOMAIN segment_rms : Cardinality(Window(i)) = 5 /\ SumOver(Window(i)) = 0
    /\ \E i \in DOMAIN segment_rms : Cardinality(Window(i)) = 3 /\ returned[i]
    /\ \E i \in DOMAIN segment_rms : SumOver(Window(i)) > 0 /\ ~returned[i]

(* the segments with the lowest RMS of the grid *)
Quietest == {i \in DOMAIN segment_rms : \A j \in DOMAIN segment_rms :
                                           segment_rms[i] <= segment_rms[j]}

(* C28: for every non-empty list of segment RMS values and                 *)
(* stress_threshold >= 1, _detect_stress marks at least one segment        *)
(* unstressed: the globally quietest segment is never stressed, so a       *)
(* single-segment grid is never stressed and no grid produced by the       *)
(* classifier is all-stressed.                                             *)
C28_NeverAllStressed ==
    (StressDone /\ segment_rms # <<>> /\ RLeq(One, formatter.stress_threshold)) =>
        /\ \E i \in DOMAIN returned : ~returned[i]
        /\ \A i \in Quietest : ~returned[i]
        /\ Len(segment_rms) = 1 => ~returned[1]

(* threshold 1.0: the louder segments are stressed, the quietest, although *)
(* not silent, is not                                                      *)
C28_Witness ==
    /\ StressDone
    /\ formatter.stress_threshold = One
    /\ Len(segment_rms) >= 3
    /\ \A i \in DOMAIN segment_rms : segment_rms[i] > 0
    /\ \A i \in Quietest : ~returned[i]
    /\ \A i \in DOMAIN segment_rms \ Quietest : returned[i]
    /\ DOMAIN segment_rms \ Quietest # {}

PitchDone == pc = "pitch"

(* the voiced pitch values of segment i; none without a signal or a track *)
Voiced(i) ==
    IF audio_signal = <<>> \/ pyin.raised THEN <<>>
    ELSE ValidPitches(pyin.f0, spans[i].time_start, spans[i].time_start + spans[i].duration)

(* the first and the last third of n values hold thirdLen values each *)
FirstThird(v, thirdLen) == SubSeq(v, 1, thirdLen)

LastThird(v, thirdLen) == SubSeq(v, Len(v) - thirdLen + 1, Len(v))

(* mean(last) / mean(first) > num / den, on positive pitch values *)
RatioAbove(first, last, num, den) ==
    den * SumSeq(last) * Len(first) > num * SumSeq(first) * Len(last)

RatioBelow(first, last, num, den) ==
    den * SumSeq(last) * Len(first) < num * SumSeq(first) * Len(last)

(* 'low' for median < 150 Hz, 'high' for median > 300 Hz, 'mid' in between *)
AbsoluteBucket(v) ==
    IF Median2(v) < 2 * 150 THEN "low" ELSE IF Median2(v) > 2 * 300 THEN "high" ELSE "mid"

(* the label of the rule: trend first from minVoiced voiced frames on, then *)
(* the absolute bucket                                                     *)
LabelByRule(v, minVoiced, first, last) ==
    IF Len(v) = 0 THEN "mid"
    ELSE IF Len(v) >= minVoiced /\ RatioAbove(first, last, 12, 10) THEN "rising"
    ELSE IF Len(v) >= minVoiced /\ RatioBelow(first, last, 8, 10) THEN "falling"
    ELSE AbsoluteBucket(v)

(* C27 as stated: _detect_pitch gives each segment exactly one label:      *)
(* 'mid' when the segment has no voiced frame; otherwise, whenever at      *)
(* least one voiced frame remains, 'rising' if mean(last third) /          *)
(* mean(first third) of the voiced pitch values exceeds 1.2 and 'falling'  *)
(* if it is below 0.8, before the absolute bucket ('low' for median < 150, *)
(* 'high' for median > 300, 'mid' in between); if pitch estimation raises, *)
(* every segment is 'mid'.  A third of n values holds ceil(n / 3) of them  *)
(* when n < 3 (one value), as the last third always does.                  *)
C27_Original ==
    PitchDone =>
        /\ Len(returned) = Len(spans)
        /\ \A i \in DOMAIN spans :
              LET v == Voiced(i)
                  n == Len(v)
              IN  returned[i] =
                      LabelByRule(v, 1, FirstThird(v, Max2(1, n \div 3)),
                                  LastThird(v, (n + 2) \div 3))
        /\ pyin.raised => \A i \in DOMAIN spans : returned[i] = "mid"

(* C27: _detect_pitch gives each segment exactly one label: 'mid' when the *)
(* segment has no voiced frame; otherwise, whenever at least three voiced  *)
(* frames remain, 'rising' if mean(last third) / mean(first third) of the  *)
(* voiced pitch values exceeds 1.2 and 'falling' if it is below 0.8, these *)
(* trend labels taking precedence over the absolute bucket; otherwise      *)
(* (also with one or two voiced frames) 'low' for median < 150 Hz, 'high'  *)
(* for median > 300 Hz and 'mid' in between.  If pitch estimation raises,  *)
(* every segment of the track is 'mid'.                                    *)
C27_PitchLabels ==
    PitchDone =>
        /\ Len(returned) = Len(spans)
        /\ \A i \in DOMAIN spans :
              LET v == Voiced(i)
                  n == Len(v)
              IN  /\ returned[i] \in {"low", "mid", "high", "rising", "falling"}
                  /\ returned[i] =
                        LabelByRule(v, 3, FirstThird(v, n \div 3),
                                    LastThird(v, (n + 2) \div 3))
        /\ pyin.raised => \A i \in DOMAIN spans : returned[i] = "mid"

(* a low segment with a rising trend is 'rising', next to a segment with   *)
(* one voiced frame that takes its bucket                                  *)
C27_Witness ==
    /\ PitchDone
    /\ Len(spans) = 2
    /\ Len(Voiced(1)) = 1 /\ returned[1] = "high"
    /\ Len(Voiced(2)) = 3 /\ Median2(Voiced(2)) < 2 * 150 /\ returned[2] = "rising"

-----------------------------------------------------------------------------
(* Properties of the backend resolution of PhoneticAnalyzer *)

HeuristicTags == {TagVowel, TagConsonant, TagMid}

LazyDone == analyzer_state._initialized

UsableBackend ==
    \/ analyzer_state._use_whisper /\ analyzer_state._whisper_analyzer
    \/ analyzer_state.model

(* what the resolution leaves behind, in every state after _lazy_init ran *)
ResolvedState ==
    LazyDone =>
        \* each backend load is attempted at most once
        /\ load_calls.whisper <= 1 /\ load_calls.allosaurus <= 1
        \* Whisper is tried exactly when it is configured and analysis is
        \* enabled, Allosaurus only if Whisper is not the backend in use
        /\ load_calls.whisper = 1 =>
              analyzer_state.phonetic_model = "whisper"
        /\ load_calls.allosaurus = 1 =>
              /\ ~(analyzer_state._use_whisper /\ analyzer_state._whisper_analyzer)
              /\ analyzer_state.phonetic_model = "whisper" =>
                    load_calls.whisper = 1 /\ backend_loads.whisper # "available"
        /\ (load_calls.whisper = 1 /\ backend_loads.whisper = "available") =>
              load_calls.allosaurus = 0
        \* enabled implies a usable backend
        /\ analyzer_state.enabled => UsableBackend
        \* neither backend loaded: disabled, and only tags or empty strings
        /\ ~UsableBackend =>
              /\ ~analyzer_state.enabled
              /\ pc \in {"analyze_segment", "analyze_segments"} =>
                    \A i \in DOMAIN returned : returned[i] \in HeuristicTags \cup {<<>>}

(* once _initialized, a call changes no field and retries no load *)
ResolvedOnce ==
    LazyDone => (analyzer_state' = analyzer_state /\ load_calls' = load_calls)

(* C30: _lazy_init attempts backend loading at most once (once             *)
(* _initialized is true, further calls change no field and no load is      *)
(* retried), tries Whisper first when configured and Allosaurus only if    *)
(* Whisper is unavailable; in every state reached after it completes,      *)
(* enabled = true implies a usable backend (Whisper analyzer set with      *)
(* _use_whisper, or Allosaurus model loaded), and if neither loads enabled *)
(* becomes false, so that analyze_segment / analyze_segments return only   *)
(* heuristic tags ([vowel], [consonant], [mid]) or empty strings.          *)
C30_BackendResolution == [](ResolvedState) /\ [][ResolvedOnce]_vars

(* Whisper was configured and unavailable, Allosaurus failed to import:    *)
(* both were tried once, the analyzer is disabled and analyze_segments     *)
(* answered with tags                                                      *)
C30_Witness ==
    /\ pc = "analyze_segments"
    /\ LazyDone
    /\ analyzer_state.phonetic_model = "whisper"
    /\ load_calls = [whisper |-> 1, allosaurus |-> 1]
    /\ ~analyzer_state.enabled /\ ~UsableBackend
    /\ Len(returned) = MaxLazySegments
    /\ \A i \in DOMAIN returned : returned[i] \in HeuristicTags

-----------------------------------------------------------------------------
(* Properties of the GenerationResult of run_full_pipeline *)

FullPipelineDone == pc = "pipeline_done" /\ pipeline.entry = "run_full_pipeline"

(* C29: every GenerationResult returned by run_full_pipeline, including    *)
(* one returned after a stage raised, has exactly one ValidationResult per *)
(* candidate (len(validations) = len(candidates)); and best_line is None   *)
(* exactly when best_score = 0.0, otherwise best_line is one of candidates *)
(* whose validation has is_valid = true and score = best_score.            *)
C29_GenerationResult ==
    FullPipelineDone =>
        /\ Len(pipeline.validations) = Len(pipeline.candidates)
        /\ ~pipeline.best_line.found <=> pipeline.best_score = Zero
        /\ pipeline.best_line.found =>
              /\ pipeline.best_line.index \in DOMAIN pipeline.candidates
              /\ pipeline.best_line.index \in DOMAIN pipeline.validations
              /\ pipeline.validations[pipeline.best_line.index].is_valid
              /\ pipeline.validations[pipeline.best_line.index].score = pipeline.best_score

-----------------------------------------------------------------------------
(* Properties of the grid, continued *)

(* the RMS _calculate_segment_rms reports for the segment is below         *)
(* 0.15 x the track's peak RMS; it reports 0.0 for an empty sample range   *)
ReportedBelowThreshold(seg) ==
    IF _calculate_segment_rms(audio_signal, seg.time_start, seg.duration) = 0
    THEN 0 < 15 * TrackPeak
    ELSE BelowPeakFraction(seg)

(* C25: after _filter_low_energy_segments, no remaining segment is both    *)
(* short (duration < 0.15 s) and below the energy threshold (segment RMS,  *)
(* as _calculate_segment_rms reports it, < 0.15 x track peak RMS); this    *)
(* covers segments whose sample range is empty or lies beyond the end of   *)
(* the waveform.                                                           *)
C25_NoShortQuietSegment ==
    Formatted =>
        \A i \in DOMAIN segments :
            ~(IsShort(segments[i]) /\ ReportedBelowThreshold(segments[i]))

=============================================================================
